---- MODULE Spec2Model ----
(***************************************************************************)
(* A model of tmglimp/commas: the relative-value pipeline that matches      *)
(* treasury futures to cheapest-to-deliver bonds (cf_ctd.py), pairs the     *)
(* candidates (ctd_fut_kpis.py), sizes the pairs (KPIs2_Orders.py) and      *)
(* submits an order (orders.py), fed by the refresh threads of main.py.     *)
(*                                                                          *)
(* Three specifications share the module's variables:                      *)
(*   Spec        the consumer cycle of business_logic_function at table     *)
(*               granularity, sizing in exact rational arithmetic, the      *)
(*               universes being republished between cycles;                *)
(*   SpecThreads the interleaving of the refresh tasks, the consumer loop   *)
(*               and the HTTP call sites, universes abstracted to the       *)
(*               refresh cycle that published them;                         *)
(*   SpecBucket  the token bucket against a clock.                          *)
(*                                                                          *)
(* Years to maturity are in 1/100000 year, coupons in eighths of a point,   *)
(* conversion factors in tenths; a float is an exact rational.              *)
(* A missing value (None/NaN) is the empty sequence <<>>, a present value   *)
(* v is <<v>>.                                                              *)
(***************************************************************************)
EXTENDS Integers, Sequences, FiniteSets, TLC

VARIABLES
    USTs,           \* config.USTs: the bond universe (sequence of bond rows)
    FUTURES,        \* config.FUTURES: [rows, CF] the futures universe and its CF column
    HEDGES,         \* config.HEDGES: [index, rows]
    HEDGES_Combos,  \* config.HEDGES_Combos: the pair table (sequence of [A, B])
    cfFile,         \* the conversion-factor workbook at config.file_path
    pc,             \* where business_logic_function stands in its cycle
    err,            \* the exception that ended the consumer thread, "" if none
    ORDERS,         \* config.ORDERS: the order instructions of the last sizing
    SMA,            \* the capital figure of the last sizing (get_acct_dets() * 4)
    readFUT,        \* the FUTURES frame the running cycle was given, as it was read
    scaling,        \* what the scaling step of the last sizing did (a record kept
                    \* for the properties; Q itself is local to calculate_quantities)
    published       \* how many universes the refresh tasks have written so far

pipeVars ==
    <<USTs, FUTURES, HEDGES, HEDGES_Combos, ORDERS, cfFile, pc, err, SMA, readFUT, scaling,
      published>>

\* The threads of main.py (SpecThreads).
VARIABLES
    cycle,          \* the refresh cycle population_function is in (0 before the first)
    prod,           \* where population_function stands
    task,           \* where run_ust_scan and run_fut_discovery stand
    pub,            \* which refresh cycle wrote config.USTs and config.FUTURES
    cons,           \* where business_logic_function stands
    got,            \* what the running pipeline run was given
    token,          \* per thread: wait_for_token has returned and no request used it yet
    untokened,      \* the call sites that sent a request without a token
    script          \* where futures_index.py, run as a script, stands

threadVars == <<cycle, prod, task, pub, cons, got, token, untokened, script>>

\* The rate limiter of spec section 4.6 (SpecBucket).
VARIABLES
    now,            \* the time, in ticks
    tokens,         \* the bucket's token count
    refilled,       \* the refill due at this instant has been made
    granted,        \* the number of acquisitions granted at each instant
    waiting         \* the threads blocked in acquire

bucketVars == <<now, tokens, refilled, granted, waiting>>

\* The batched requests of contract.py and market_data.py (SpecFetch)
VARIABLES
    fetchFn,        \* the function that runs
    fetchContracts, \* its argument contracts
    fetchI,         \* the loop variable i
    fetchOut,       \* contract_details / market_data so far
    fetchLog,       \* the requests made and their responses, in order
    fetchPc         \* "loop", "returned" or "raised"

fetchVars == <<fetchFn, fetchContracts, fetchI, fetchOut, fetchLog, fetchPc>>

\* calculate_ytm under calculate_bond_metrics (SpecYtm)
VARIABLES
    ytmArgs,        \* the arguments of the call of calculate_ytm
    ytmIter,        \* the turns of the for loop completed
    ytm,            \* the local ytm
    ytmPc,          \* "idle", "loop", "returned" or "raised"
    ytmExit,        \* the way the last call left: a return site or an exception
    ytmResult,      \* the value returned
    ytmSeen,        \* the values calculate_bond_metrics has received, each with
                    \* the return site it came from
    ytmCalls        \* the calls made

ytmVars == <<ytmArgs, ytmIter, ytm, ytmPc, ytmExit, ytmResult, ytmSeen, ytmCalls>>

\* One call of a function of the pipeline's libraries, on its own
VARIABLES
    callFn,         \* the function called
    callArgs,       \* its arguments
    callPc,         \* "called", "returned" or "raised"; in orderRequest also the line it is at
    callResult      \* the value returned, or the exception raised

callVars == <<callFn, callArgs, callPc, callResult>>

\* The main thread of main.py.
VARIABLES
    shutdown        \* the main thread was interrupted (KeyboardInterrupt at lines 56-57)

mainVars == <<shutdown>>

restVars == <<fetchVars, ytmVars, callVars, mainVars>>

vars == <<pipeVars, threadVars, bucketVars, restVars>>

----------------------------------------------------------------------------
(* Values *)

None == <<>>
Some(v) == <<v>>
IsNone(o) == o = <<>>
Val(o) == o[1]

Abs(x) == IF x < 0 THEN -x ELSE x

Range(s) == {s[i] : i \in 1..Len(s)}

\* A column [i \in 1..n |-> e] with its entries worked out once.
Column(f) == f \o <<>>

\* A float is the rational <<n, d>>, d > 0, in lowest terms: the model computes
\* what the code's formulas denote, without the rounding of floating point.
RECURSIVE GCD(_, _)
GCD(a, b) == IF b = 0 THEN Abs(a) ELSE GCD(b, a % b)

Rat(n, d) ==
    LET g == GCD(Abs(n), Abs(d))
    IN  IF d < 0 THEN << (-n) \div g, (-d) \div g >> ELSE << n \div g, d \div g >>
RInt(n) == <<n, 1>>
\* Sums and products reduce before they multiply, to keep the integers small.
RAdd(x, y) ==
    LET g == GCD(x[2], y[2])
    IN  Rat(x[1] * (y[2] \div g) + y[1] * (x[2] \div g), (x[2] \div g) * y[2])
RNeg(x) == <<-x[1], x[2]>>
RSub(x, y) == RAdd(x, RNeg(y))
RMul(x, y) ==
    LET a == Rat(x[1], y[2])
        b == Rat(y[1], x[2])
    IN  <<a[1] * b[1], a[2] * b[2]>>
RDiv(x, y) == RMul(x, IF y[1] < 0 THEN <<-y[2], -y[1]>> ELSE <<y[2], y[1]>>)
RSign(x) == IF x[1] > 0 THEN 1 ELSE IF x[1] < 0 THEN -1 ELSE 0
RLt(x, y) == RSign(RSub(x, y)) < 0
RLe(x, y) == RSign(RSub(x, y)) <= 0
RFloor(x) == x[1] \div x[2]

RECURSIVE RSum(_)
RSum(s) == IF s = <<>> THEN RInt(0) ELSE RAdd(Head(s), RSum(Tail(s)))

\* The subsequences of s (order kept), as the universes a refresh can publish.
RECURSIVE SubSeqs(_)
SubSeqs(s) ==
    IF s = <<>> THEN {<<>>}
    ELSE LET rest == SubSeqs(Tail(s))
         IN  rest \cup {<<Head(s)>> \o r : r \in rest}

----------------------------------------------------------------------------
(* Inputs: the catalogues the published universes are drawn from *)

NumFuts == 5
NumBonds == 5
MaxPublished == 3

\* A futures row's volume is a power of ten ("10", "100", "1K", ...), kept as
\* its exponent; a bond row carries, beside the fields matching reads, the
\* values the closed forms of fixed_income_calc.py (BPrice, DV01,
\* approximate_convexity) take at its coupon, term and yield.  Conversion
\* factors and the matching target are in tenths.
FutCatalogue ==
    << [con_id |-> 11, symbol |-> "ZF",  price |-> 2, multiplier |-> 1000, volume |-> 1],
       [con_id |-> 12, symbol |-> "ZN",  price |-> 2, multiplier |-> 1000, volume |-> 2],
       [con_id |-> 13, symbol |-> "TN",  price |-> 3, multiplier |-> 1000, volume |-> 3],
       [con_id |-> 14, symbol |-> "ZT",  price |-> 1, multiplier |-> 2000, volume |-> 1],
       [con_id |-> 15, symbol |-> "UB",  price |-> 2, multiplier |-> 1000, volume |-> 2],
       [con_id |-> 16, symbol |-> "Z3N", price |-> 2, multiplier |-> 2000, volume |-> 1],
       [con_id |-> 17, symbol |-> "ZN",  price |-> 3, multiplier |-> 2000, volume |-> 2] >>

BondCatalogue ==
    << [con_id |-> 1, cusip |-> 101, year_to_maturity |-> 500000, price |-> 7,
        BPrice |-> 72, DV01 |-> 72, AprxCvx |-> 36],
       [con_id |-> 2, cusip |-> 102, year_to_maturity |-> 700000, price |-> 5,
        BPrice |-> 144, DV01 |-> 144, AprxCvx |-> 72],
       [con_id |-> 3, cusip |-> 103, year_to_maturity |-> 975000, price |-> 6,
        BPrice |-> 72, DV01 |-> 216, AprxCvx |-> 72],
       [con_id |-> 4, cusip |-> 104, year_to_maturity |-> 200000, price |-> 4,
        BPrice |-> 72, DV01 |-> 36, AprxCvx |-> 36],
       [con_id |-> 5, cusip |-> 105, year_to_maturity |-> 190000, price |-> 4,
        BPrice |-> 144, DV01 |-> 36, AprxCvx |-> 36],
       [con_id |-> 6, cusip |-> 106, year_to_maturity |-> 650001, price |-> 5,
        BPrice |-> 72, DV01 |-> 144, AprxCvx |-> 72] >>

Min(a, b) == IF a < b THEN a ELSE b

FutUniverses == SubSeqs(SubSeq(FutCatalogue, 1, Min(NumFuts, Len(FutCatalogue))))
BondUniverses == SubSeqs(SubSeq(BondCatalogue, 1, Min(NumBonds, Len(BondCatalogue))))

\* A conversion-factor sheet: the coupon column (A6 down), the Years-Months
\* header (B5 right) and the grid of cells, a cell being missing or a number.
GoodSheet ==
    [coupon |-> <<33, 34>>, years_months |-> <<20, 23>>,
     cf |-> << <<None, Some(9)>>, <<Some(12), Some(9)>> >>]
EmptySheet ==
    [coupon |-> <<33, 34>>, years_months |-> <<20, 23>>,
     cf |-> << <<None, None>>, <<None, None>> >>]

SheetNames ==
    {"2-Year Note Table", "3-Year Note Table", "5-Year Note Table", "10-Year Note Table"}

CfFiles ==
    { [s \in SheetNames |-> GoodSheet],
      [s \in SheetNames |-> EmptySheet] }

----------------------------------------------------------------------------
(* cf_ctd.py *)

sheet_mapping ==
    [ZT  |-> <<"2-Year Note Table", 175000, 200000>>,
     Z3N |-> <<"3-Year Note Table", 275000, 300000>>,
     ZF  |-> <<"5-Year Note Table", 416667, 525000>>,
     ZN  |-> <<"10-Year Note Table", 650000, 1000000>>,
     TN  |-> <<"10-Year Note Table", 950000, 1000000>>]

\* round(value * 4) / 4 with value in eighths: value * 4 is e / 2, and Python's
\* round sends a half to the even neighbour.  The result is again in eighths.
round_to_nearest_quarter(e) ==
    LET q == e \div 2
    IN  IF e % 2 = 0 THEN 2 * q
        ELSE IF q % 2 = 0 THEN 2 * q ELSE 2 * (q + 1)

\* USTs[(ytm > ytm_min) & (ytm < ytm_max)]
InBracketMutant(b, ytm_min, ytm_max) ==
    b.year_to_maturity >= ytm_min /\ b.year_to_maturity <= ytm_max

InBracket(b, ytm_min, ytm_max) ==
    b.year_to_maturity > ytm_min /\ b.year_to_maturity < ytm_max

filtered_USTs(U, ytm_min, ytm_max) ==
    SelectSeq(U, LAMBDA b : InBracket(b, ytm_min, ytm_max))

\* (cf_target - price).abs().argsort()[:1]: the position of the least distance,
\* the first such on a tie (the sort of a short column is an insertion sort).
Stage1Dist(b, futures_price) == Abs(b.price * futures_price - b.price)

select_ust(filtered, futures_price) ==
    LET best == CHOOSE i \in 1..Len(filtered) :
                    \A j \in 1..Len(filtered) :
                        \/ Stage1Dist(filtered[i], futures_price) < Stage1Dist(filtered[j], futures_price)
                        \/ /\ Stage1Dist(filtered[i], futures_price) = Stage1Dist(filtered[j], futures_price)
                           /\ i <= j
    IN  filtered[best]

\* The double loop over cf_values, row-major, cell k of nRows * nCols; acc is
\* (best_match, min_diff, best_coupon, best_years_months), min_diff missing
\* standing for float('inf').
RECURSIVE scan_cf(_, _, _, _)
scan_cf(sheet, target, k, acc) ==
    LET nCols == Len(sheet.years_months)
        nRows == Len(sheet.coupon)
    IN  IF k > nRows * nCols THEN acc
        ELSE LET i == ((k - 1) \div nCols) + 1
                 j == ((k - 1) % nCols) + 1
                 cell == sheet.cf[i][j]
             IN  IF IsNone(cell) THEN scan_cf(sheet, target, k + 1, acc)
                 ELSE LET diff == Abs(Val(cell) - target)
                      IN  IF IsNone(acc.min_diff) \/ diff < Val(acc.min_diff)
                          THEN scan_cf(sheet, target, k + 1,
                                       [best_match |-> cell, min_diff |-> Some(diff),
                                        best_coupon |-> Some(sheet.coupon[i]),
                                        best_years_months |-> Some(sheet.years_months[j])])
                          ELSE scan_cf(sheet, target, k + 1, acc)

NoResult == [raised |-> FALSE, cf |-> None, coupon |-> None, years_months |-> None, ust |-> None]

find_conversion_factor(F, U, file, index) ==
    LET futures_symbol == F[index].symbol
        futures_price == F[index].price
    IN  IF futures_symbol \notin DOMAIN sheet_mapping
        THEN [NoResult EXCEPT !.raised = TRUE]
        ELSE LET m == sheet_mapping[futures_symbol]
                 df == file[m[1]]
                 filtered == filtered_USTs(U, m[2], m[3])
             IN  IF filtered = <<>> THEN NoResult
                 ELSE LET selected_ust == select_ust(filtered, futures_price)
                          found == scan_cf(df, selected_ust.price * futures_price, 1,
                                           [best_match |-> None, min_diff |-> None,
                                            best_coupon |-> None, best_years_months |-> None])
                      IN  [raised |-> FALSE,
                           cf |-> found.best_match,
                           coupon |-> IF IsNone(found.best_coupon) THEN None
                                      ELSE Some(round_to_nearest_quarter(Val(found.best_coupon))),
                           years_months |-> found.best_years_months,
                           ust |-> Some(selected_ust)]

\* One value of each CTD_* column of ctd_data for futures row i, and the
\* cf_results entry.
ctd_row(res) ==
    [CTD_CUSIP |-> IF IsNone(res.ust) THEN None ELSE Some(Val(res.ust).cusip),
     CTD_conId |-> IF IsNone(res.ust) THEN None ELSE Some(Val(res.ust).con_id),
     CTD_price |-> IF IsNone(res.ust) THEN None ELSE Some(Val(res.ust).price),
     CTD_ytm   |-> IF IsNone(res.ust) THEN None ELSE Some(Val(res.ust).year_to_maturity),
     CTD_CF    |-> IF IsNone(res.ust) THEN None ELSE res.cf]

\* config.HEDGES.dropna(subset=['CTD_CUSIP']): the positions kept.
dropna_keep(rows) == {i \in 1..Len(rows) : ~IsNone(rows[i].CTD_CUSIP)}

\* The subsequence of s at the positions of keep, order kept.
RECURSIVE Pick(_, _, _)
Pick(s, keep, i) ==
    IF i > Len(s) THEN <<>>
    ELSE (IF i \in keep THEN <<s[i]>> ELSE <<>>) \o Pick(s, keep, i + 1)

\* config.HEDGES[col] = FUTURES[col]: a Series is aligned on the index labels,
\* a label the futures frame does not have gives a missing value.
align(F, label, col) ==
    IF label + 1 \in 1..Len(F) THEN Some(F[label + 1][col]) ELSE None

\* What process_futures_data does to the frame config.HEDGES for a futures
\* frame of n rows: a column list is set by position on the frame's index,
\* which an empty frame takes from the list (0..n-1); a list of another length
\* than a non-empty index is refused.
LengthMismatch(H, n) == Len(H.index) # 0 /\ Len(H.index) # n

hedges_after(H, F, results) ==
    LET n == Len(F)
        index0 == IF Len(H.index) = 0 THEN [i \in 1..n |-> i - 1] ELSE H.index
        rows0 == [i \in 1..n |-> ctd_row(results[i])]
        keep == dropna_keep(rows0)
        index1 == Pick(index0, keep, 1)
        rows1 == Pick(rows0, keep, 1)
    IN  [index |-> index1,
         rows |-> [i \in 1..Len(rows1) |->
                     [CTD_CUSIP |-> Val(rows1[i].CTD_CUSIP),
                      CTD_conId |-> Val(rows1[i].CTD_conId),
                      CTD_price |-> Val(rows1[i].CTD_price),
                      CTD_ytm |-> Val(rows1[i].CTD_ytm),
                      CTD_CF |-> rows1[i].CTD_CF,
                      FUT_Multiplier |-> align(F, index1[i], "multiplier"),
                      FUT_Volume |-> align(F, index1[i], "volume")]]]

\* business_logic_function, line 23: both universes are there and not empty.
UniversesReady == USTs # <<>> /\ FUTURES.rows # <<>>

\* process_futures_data(config.FUTURES, config.USTs, config.file_path)
process_futures_data ==
    /\ pc = "idle"
    /\ UniversesReady
    /\ LET F == FUTURES.rows
           results == [i \in 1..Len(F) |-> find_conversion_factor(F, USTs, cfFile, i)]
       IN  /\ readFUT' = FUTURES
           /\ IF \E i \in 1..Len(F) : results[i].raised
              THEN /\ pc' = "dead"
                   /\ err' = "ValueError: Invalid futures symbol"
                   /\ UNCHANGED <<FUTURES, HEDGES>>
              ELSE /\ FUTURES' = [FUTURES EXCEPT !.CF = Some([i \in 1..Len(F) |-> results[i].cf])]
                   /\ IF LengthMismatch(HEDGES, Len(F))
                      THEN /\ pc' = "dead"
                           /\ err' = "ValueError: Length of values does not match length of index"
                           /\ UNCHANGED HEDGES
                      ELSE /\ pc' = "hedged"
                           /\ HEDGES' = hedges_after(HEDGES, F, results)
                           /\ UNCHANGED err
    /\ UNCHANGED <<USTs, HEDGES_Combos, ORDERS, cfFile, SMA, scaling, published>>
    /\ UNCHANGED <<threadVars, bucketVars, restVars>>

----------------------------------------------------------------------------
(* ctd_fut_kpis.py *)

BondById(id) == CHOOSE b \in Range(BondCatalogue) : b.con_id = id

\* CTD_CF as a number: the sheets hold tenths.
cf_value(row) == Rat(Val(row.CTD_CF), 10)

\* Lines 27-81: the columns a hedge row gets.  CTD_MDur, CTD_MacDur and
\* CTD_AprxDur and their FUT_ quotients are set as well and read by nothing.
with_kpis(row) ==
    LET b == BondById(row.CTD_conId)
    IN  [CTD_CUSIP |-> row.CTD_CUSIP, CTD_conId |-> row.CTD_conId,
         CTD_price |-> row.CTD_price, CTD_ytm |-> row.CTD_ytm, CTD_CF |-> row.CTD_CF,
         FUT_Multiplier |-> row.FUT_Multiplier, FUT_Volume |-> row.FUT_Volume,
         CTD_BPrice |-> b.BPrice, CTD_DV01 |-> b.DV01, CTD_AprxCvx |-> b.AprxCvx,
         FUT_Price |-> RDiv(RInt(b.BPrice), cf_value(row)),
         FUT_DV01 |-> RDiv(RInt(b.DV01), cf_value(row)),
         FUT_AprxCvx |-> RDiv(RInt(b.AprxCvx), cf_value(row))]

\* if row1[1]['CTD_conId'] != row2[1]['CTD_conId']
pair_filter_none(r1, r2) == TRUE

pair_filter(r1, r2) == r1.CTD_conId # r2.CTD_conId

\* itertools.product(HEDGES.iterrows(), repeat=2), filtered: row-major.
RECURSIVE product_from(_, _)
product_from(rows, k) ==
    LET n == Len(rows)
    IN  IF k > n * n THEN <<>>
        ELSE LET i == ((k - 1) \div n) + 1
                 j == ((k - 1) % n) + 1
             IN  (IF pair_filter(rows[i], rows[j])
                  THEN << [A |-> rows[i], B |-> rows[j]] >> ELSE <<>>)
                 \o product_from(rows, k + 1)

combinations(rows) == product_from(rows, 1)

\* HEDGES['FUT_Price'] = HEDGES['CTD_BPrice'] / HEDGES['CTD_CF'] on a column
\* CTD_CF that holds nothing but None (an object column) is a TypeError.
AllCFMissing(rows) == rows # <<>> /\ \A i \in 1..Len(rows) : IsNone(rows[i].CTD_CF)

\* run_fixed_income_calculation(config.HEDGES).  The columns are set on the
\* frame config.HEDGES itself.  On a frame without rows
\* HEDGES.apply(..., axis=1) gives, by the pandas at hand, either an empty
\* column or a frame, which the column assignment refuses.
run_fixed_income_calculation ==
    /\ pc = "hedged"
    /\ \/ /\ AllCFMissing(HEDGES.rows)
          /\ pc' = "dead"
          /\ err' = "TypeError: unsupported operand type(s) for /"
          /\ UNCHANGED <<HEDGES, HEDGES_Combos>>
       \/ /\ HEDGES.rows = <<>>
          /\ pc' = "dead"
          /\ err' = "ValueError: Cannot set a DataFrame with multiple columns"
          /\ UNCHANGED <<HEDGES, HEDGES_Combos>>
       \/ /\ HEDGES.rows = <<>>
          /\ pc' = "paired"
          /\ HEDGES_Combos' = <<>>
          /\ UNCHANGED <<HEDGES, err>>
       \/ /\ HEDGES.rows # <<>>
          /\ ~AllCFMissing(HEDGES.rows)
          /\ LET rows == [i \in 1..Len(HEDGES.rows) |-> with_kpis(HEDGES.rows[i])]
             IN  /\ HEDGES' = [HEDGES EXCEPT !.rows = rows]
                 /\ HEDGES_Combos' = combinations(rows)
          /\ pc' = "paired"
          /\ UNCHANGED err
    /\ UNCHANGED <<USTs, FUTURES, ORDERS, cfFile, SMA, readFUT, scaling, published>>
    /\ UNCHANGED <<threadVars, bucketVars, restVars>>

----------------------------------------------------------------------------
(* KPIs2_Orders.py *)

\* Lines 54-68: the branch the pair table selects; each test is
\* (front_multiplier == a).all() and (back_multiplier == b).all(); 0 when no
\* branch is taken and Q keeps its initial integers.
AllMult(T, leg, m) == \A i \in 1..Len(T) : T[i][leg].FUT_Multiplier = Some(m)

multiplier_case(T) ==
    IF AllMult(T, "A", 1000) /\ AllMult(T, "B", 1000) THEN 1
    ELSE IF AllMult(T, "A", 2000) /\ AllMult(T, "B", 1000) THEN 2
    ELSE IF AllMult(T, "A", 1000) /\ AllMult(T, "B", 2000) THEN 3
    ELSE IF AllMult(T, "A", 2000) /\ AllMult(T, "B", 2000) THEN 4
    ELSE 0

\* Lines 49-68: the raw ratios of row r in branch c (1..4) of the 4-case table.
dv01_avg_halved(r) == RDiv(RAdd(r.A.FUT_DV01, r.B.FUT_DV01), RInt(4))

dv01_avg(r) == RDiv(RAdd(r.A.FUT_DV01, r.B.FUT_DV01), RInt(2))
half == Rat(1, 2)

raw_Q(r, c) ==
    LET qa == RDiv(r.B.FUT_DV01, dv01_avg(r))
        qb == RDiv(r.A.FUT_DV01, dv01_avg(r))
    IN  [A |-> IF c \in {3, 4} THEN RMul(half, qa) ELSE qa,
         B |-> IF c \in {2, 4} THEN RMul(half, qb) ELSE qb]

\* Lines 71-72: total_Q for the columns QA, QB.
notional(T, QA, QB) ==
    RAdd(RSum([i \in 1..Len(T) |->
                 RMul(QA[i], RMul(RInt(Val(T[i].A.FUT_Multiplier)), T[i].A.FUT_Price))]),
         RSum([i \in 1..Len(T) |->
                 RMul(QB[i], RMul(RInt(Val(T[i].B.FUT_Multiplier)), T[i].B.FUT_Price))]))

\* Lines 74-76: the scaling step.
cap(sma) == Rat(9 * sma, 10)

scaling_factor_uncapped(sma, total_Q) == RDiv(RInt(sma), total_Q)

scaling_factor(sma, total_Q) == RDiv(cap(sma), total_Q)

scale_step(T, sma, c) ==
    LET QA == Column([i \in 1..Len(T) |-> raw_Q(T[i], c).A])
        QB == Column([i \in 1..Len(T) |-> raw_Q(T[i], c).B])
        total_Q == notional(T, QA, QB)
        triggered == RLe(cap(sma), total_Q)
        f == IF triggered THEN scaling_factor(sma, total_Q) ELSE RInt(1)
    IN  [triggered |-> triggered,
         unscaled |-> total_Q,
         rawA |-> QA, rawB |-> QB,
         A |-> Column([i \in 1..Len(T) |-> RMul(QA[i], f)]),
         B |-> Column([i \in 1..Len(T) |-> RMul(QB[i], f)])]

\* Lines 79-86: the GCD of the floored first-pair quantities, and the floor
\* division of both columns by it when it exceeds 1.
gcd_step(sc) ==
    LET g == GCD(Abs(RFloor(sc.A[1])), Abs(RFloor(sc.B[1])))
    IN  [G |-> g,
         A |-> IF g > 1 THEN Column([i \in 1..Len(sc.A) |-> RInt(RFloor(RDiv(sc.A[i], RInt(g))))])
               ELSE sc.A,
         B |-> IF g > 1 THEN Column([i \in 1..Len(sc.B) |-> RInt(RFloor(RDiv(sc.B[i], RInt(g))))])
               ELSE sc.B]

\* Lines 103-144: the basis columns of one leg and of the pair.
gross_basis(fut_price, ctd_price) == RSub(fut_price, RInt(ctd_price))

convexity_yield(aprx_cvx, fut_price, ctd_price) ==
    RMul(RDiv(aprx_cvx, RInt(100)), RSub(fut_price, RInt(ctd_price)))

NetBasis(leg) ==
    RAdd(gross_basis(leg.FUT_Price, leg.CTD_price),
         convexity_yield(leg.FUT_AprxCvx, leg.FUT_Price, leg.CTD_price))

\* Lines 140-144 for row i, with the quantities Q of that point.
basis_columns(T, Q) ==
    Column([i \in 1..Len(T) |->
        LET a == RMul(NetBasis(T[i].A), Q.A[i])
            b == RMul(NetBasis(T[i].B), Q.B[i])
        IN  [A_AdjNetBasis |-> a, B_AdjNetBasis |-> b, PairsAdjNetBasis |-> RAdd(a, b)]])

\* Lines 147-151.  With k the log volume of a leg (in units of ln 10) and n the
\* number of rows, the z-score of row i is VolDev / sqrt(VolSpread): n times the
\* deviation from the mean over n times the population deviation.  A column
\* of equal volumes has spread 0 and z-scores 0/0 = NaN.
RECURSIVE IntSum(_)
IntSum(s) == IF s = <<>> THEN 0 ELSE Head(s) + IntSum(Tail(s))

LogVol(T, leg) == [i \in 1..Len(T) |-> Val(T[i][leg].FUT_Volume)]
VolDev(T, leg, i) == Len(T) * LogVol(T, leg)[i] - IntSum(LogVol(T, leg))
VolSpread(T, leg) ==
    Len(T) * IntSum([i \in 1..Len(T) |-> LogVol(T, leg)[i] * LogVol(T, leg)[i]])
        - IntSum(LogVol(T, leg)) * IntSum(LogVol(T, leg))

\* Line 154: RENTD = PairsAdjNetBasis * Ln_Avg_Vol.  The two terms of RENTD
\* (times 2n) for each row, before the division by the deviations, and
\* whether the column is NaN.
RENTD_terms(T, P) ==
    [A |-> Column([i \in 1..Len(T) |-> RMul(P[i], RInt(VolDev(T, "A", i)))]),
     B |-> Column([i \in 1..Len(T) |-> RMul(P[i], RInt(VolDev(T, "B", i)))]),
     va |-> VolSpread(T, "A"), vb |-> VolSpread(T, "B")]

RENTD_isnan(K) == K.va = 0 \/ K.vb = 0

\* The sign of x / sqrt(va) + y / sqrt(vb), for va, vb > 0.
SqrtFormSign(x, va, y, vb) ==
    IF va = vb THEN RSign(RAdd(x, y))
    ELSE IF RSign(x) >= 0 /\ RSign(y) >= 0 THEN (IF RSign(x) + RSign(y) > 0 THEN 1 ELSE 0)
    ELSE IF RSign(x) <= 0 /\ RSign(y) <= 0 THEN -1
    ELSE LET d == RSign(RSub(RMul(RMul(x, x), RInt(vb)), RMul(RMul(y, y), RInt(va))))
         IN  IF RSign(x) > 0 THEN d ELSE -d

\* Whether row i has the greater RENTD than row j.
RENTD_gt(K, i, j) ==
    SqrtFormSign(RSub(K.A[i], K.A[j]), K.va, RSub(K.B[i], K.B[j]), K.vb) > 0

\* Line 158: sort_values(by='RENTD', ascending=False), with the default
\* kind='quicksort', which is not a stable sort: the order it leaves rows of
\* equal RENTD in depends on the numpy build and on the length of the column.
\* The model takes the two extremes, rows of equal RENTD left as scanned or
\* turned round.  A column of NaN is not sorted at all and keeps its order.
TieOrders == {"scan", "reversed"}

RENTD_eq(K, i, j) == ~RENTD_gt(K, j, i) /\ ~RENTD_gt(K, i, j)

\* The place of row i: after the rows of greater RENTD and after the rows of
\* equal RENTD that the tie order puts first.
sort_place(K, i, tie) ==
    IF RENTD_isnan(K) THEN i
    ELSE 1 + Cardinality({j \in 1..Len(K.A) : RENTD_gt(K, j, i)})
           + Cardinality({j \in (IF tie = "scan" THEN 1..(i - 1) ELSE (i + 1)..Len(K.A)) :
                              RENTD_eq(K, j, i)})

sort_values(T, P, tie) ==
    LET K == RENTD_terms(T, P)
        place == Column([i \in 1..Len(T) |-> sort_place(K, i, tie)])
    IN  Column([p \in 1..Len(T) |-> CHOOSE i \in 1..Len(T) : place[i] = p])

sized_row_unsigned(label, r, cols, qa, qb, g) ==
    [index |-> label, A |-> r.A, B |-> r.B,
     A_AdjNetBasis |-> cols.A_AdjNetBasis, B_AdjNetBasis |-> cols.B_AdjNetBasis,
     PairsAdjNetBasis |-> cols.PairsAdjNetBasis,
     A_Q_Value |-> qa, B_Q_Value |-> qb, PairsGCD |-> g]

\* Lines 161-172: the quantity columns of a sorted row, signs applied.  The
\* row keeps its index label, on which the quantity columns are aligned.
sized_row(label, r, cols, qa, qb, g) ==
    LET diff == RSign(RSub(cols.A_AdjNetBasis, cols.B_AdjNetBasis))
    IN  [index |-> label, A |-> r.A, B |-> r.B,
         A_AdjNetBasis |-> cols.A_AdjNetBasis, B_AdjNetBasis |-> cols.B_AdjNetBasis,
         PairsAdjNetBasis |-> cols.PairsAdjNetBasis,
         A_Q_Value |-> IF diff > 0 THEN RNeg(qa) ELSE qa,
         B_Q_Value |-> IF diff < 0 THEN RNeg(qb) ELSE qb,
         PairsGCD |-> g]

\* Lines 179-204: one order instruction.
order_of(row) ==
    [front_conId |-> row.A.CTD_conId, front_ratio |-> row.A_Q_Value,
     back_conId |-> row.B.CTD_conId, back_ratio |-> row.B_Q_Value,
     quantity |-> row.PairsGCD,
     price |-> RMul(Rat(-1, 2), row.PairsAdjNetBasis)]

\* What a call of calculate_quantities went through: whether it reached the
\* scaling test, the raw ratio columns, the total before and after scaling,
\* and the quantities after the GCD step (empty while not computed).
NoScaling ==
    [reached |-> FALSE, triggered |-> FALSE, unscaled |-> RInt(0), total |-> RInt(0),
     rawA |-> <<>>, rawB |-> <<>>, QA |-> <<>>, QB |-> <<>>, G |-> 0]

\* Lines 176-209: the end of calculate_quantities, from the sorted table:
\* the exception it ends with ("" if none), what its scaling step did, and
\* the table and orders it leaves.  A table of fewer than three rows has no
\* iloc[2]; the columns set before the sort are then left on the table given.
top_rows(T, done, cols, sorted) ==
    IF Len(T) < 3
    THEN [error |-> "IndexError: single positional indexer is out-of-bounds",
          scaling |-> done,
          Combos |-> [i \in 1..Len(T) |->
                        [A |-> T[i].A, B |-> T[i].B,
                         A_AdjNetBasis |-> cols[i].A_AdjNetBasis,
                         B_AdjNetBasis |-> cols[i].B_AdjNetBasis,
                         PairsAdjNetBasis |-> cols[i].PairsAdjNetBasis]],
          ORDERS |-> ORDERS]
    ELSE [error |-> "", scaling |-> done, Combos |-> sorted,
          ORDERS |-> <<order_of(sorted[1]), order_of(sorted[2]), order_of(sorted[3])>>]

\* Lines 158-172, from the sort order.
quantity_columns(T, done, Q, cols, order) ==
    top_rows(T, done, cols,
             Column([p \in 1..Len(T) |->
                        sized_row(order[p] - 1, T[order[p]], cols[order[p]],
                                  Q.A[order[p]], Q.B[order[p]], Q.G)]))

\* Lines 147-158, from the basis columns.
rank_pairs(T, done, Q, cols, tie) ==
    quantity_columns(T, done, Q, cols,
                     sort_values(T, Column([i \in 1..Len(T) |-> cols[i].PairsAdjNetBasis]), tie))

\* Lines 79-144, from the quantities the scaling step leaves.
reduce_and_price(T, sc, Q, tie) ==
    rank_pairs(T,
               [reached |-> TRUE, triggered |-> sc.triggered,
                unscaled |-> sc.unscaled, total |-> notional(T, sc.A, sc.B),
                rawA |-> sc.rawA, rawB |-> sc.rawB, QA |-> Q.A, QB |-> Q.B, G |-> Q.G],
               Q, basis_columns(T, Q), tie)

size_pairs(T, sc, tie) == reduce_and_price(T, sc, gcd_step(sc), tie)

\* calculate_quantities(HEDGES_Combos, SMA), the sort leaving ties as tie says.
calculate_quantities(T, sma, tie) ==
    IF T = <<>>
    THEN [error |-> "KeyError: 'A_FUT_Multiplier'", scaling |-> NoScaling,
          Combos |-> T, ORDERS |-> ORDERS]
    ELSE IF multiplier_case(T) = 0
    THEN [error |-> "AttributeError: 'int' object has no attribute 'iloc'",
          scaling |-> [NoScaling EXCEPT !.reached = TRUE,
                                        !.triggered = RLe(cap(sma), RInt(0))],
          Combos |-> T, ORDERS |-> ORDERS]
    ELSE size_pairs(T, scale_step(T, sma, multiplier_case(T)), tie)

\* What get_acct_dets() can return for 'nl': a number, or None when the
\* response has no such key.
NlValues == {None, Some(10), Some(300000)}

\* What calculate_quantities leaves behind.
leave_sizing(out) ==
    /\ scaling' = out.scaling
    /\ HEDGES_Combos' = out.Combos
    /\ ORDERS' = out.ORDERS
    /\ pc' = IF out.error = "" THEN "sized" ELSE "dead"
    /\ err' = out.error

\* calculate_quantities_with_sma(config.HEDGES_Combos)
calculate_quantities_with_sma ==
    /\ pc = "paired"
    /\ \/ /\ pc' = "dead"          \* get_acct_dets: the request or its parsing raises
          /\ err' = "get_acct_dets raised"
          /\ UNCHANGED <<HEDGES_Combos, ORDERS, SMA, scaling>>
       \/ \E nl \in NlValues :
            IF IsNone(nl)
            THEN /\ pc' = "dead"
                 /\ err' = "TypeError: unsupported operand type(s) for *: 'NoneType' and 'int'"
                 /\ UNCHANGED <<HEDGES_Combos, ORDERS, SMA, scaling>>
            ELSE /\ SMA' = Val(nl) * 4
                 /\ \E tie \in TieOrders :
                        leave_sizing(calculate_quantities(HEDGES_Combos, Val(nl) * 4, tie))
    /\ UNCHANGED <<USTs, FUTURES, HEDGES, cfFile, readFUT, published>>
    /\ UNCHANGED <<threadVars, bucketVars, restVars>>

----------------------------------------------------------------------------
(* orders.py *)

\* orderRequest(config.ORDERS): one POST, whatever the status; an exception of
\* the POST ends the thread.
orderRequest ==
    /\ pc = "sized"
    /\ \/ /\ pc' = "idle"
          /\ UNCHANGED err
       \/ /\ pc' = "dead"
          /\ err' = "requests.post raised"
    /\ UNCHANGED <<USTs, FUTURES, HEDGES, HEDGES_Combos, ORDERS, cfFile, SMA, readFUT, scaling, published>>
    /\ UNCHANGED <<threadVars, bucketVars, restVars>>

----------------------------------------------------------------------------
(* The refresh tasks, as the consumer cycle sees them: between two cycles   *)
(* config.USTs or config.FUTURES is replaced by a new frame.                *)

FreshFUTURES(F) == [rows |-> F, CF |-> None]

PublishUSTs ==
    /\ pc = "idle"
    /\ published < MaxPublished
    /\ published' = published + 1
    /\ \E U \in BondUniverses : USTs' = U
    /\ UNCHANGED <<FUTURES, HEDGES, HEDGES_Combos, ORDERS, cfFile, pc, err, SMA, readFUT, scaling>>
    /\ UNCHANGED <<threadVars, bucketVars, restVars>>

PublishFUTURES ==
    /\ pc = "idle"
    /\ published < MaxPublished
    /\ published' = published + 1
    /\ \E F \in FutUniverses : FUTURES' = FreshFUTURES(F)
    /\ UNCHANGED <<USTs, HEDGES, HEDGES_Combos, ORDERS, cfFile, pc, err, SMA, readFUT, scaling>>
    /\ UNCHANGED <<threadVars, bucketVars, restVars>>

InitPipe ==
    /\ USTs = <<>>
    /\ FUTURES = FreshFUTURES(<<>>)
    /\ HEDGES = [index |-> <<>>, rows |-> <<>>]
    /\ HEDGES_Combos = <<>>
    /\ ORDERS = <<>>
    /\ cfFile \in CfFiles
    /\ pc = "idle"
    /\ err = ""
    /\ SMA = 0
    /\ readFUT = FreshFUTURES(<<>>)
    /\ scaling = NoScaling
    /\ published = 0

----------------------------------------------------------------------------
(* main.py and business_logic.py: the threads (SpecThreads).  What the      *)
(* pipeline computes is left out here: a step of it goes on or raises.      *)

MaxCycles == 2

Threads == {"ust", "fut", "consumer", "script"}

\* The requests of UST.scan and of Future.discover, in their order.
program ==
    [ust |-> <<"UST_index.scan_ust", "contract.get_security_definition",
               "market_data.get_market_data">>,
     fut |-> <<"Future_index.scan", "contract.get_security_definition",
               "market_data.get_market_data">>]

At(k, phase) == [at |-> k, phase |-> phase]

\* A request leaves the thread: with the token of the acquire before it, or
\* without one.
send(t, site) ==
    /\ untokened' = IF token[t] THEN untokened ELSE untokened \cup {site}
    /\ token' = [token EXCEPT ![t] = FALSE]

\* population_function, lines 35-37: a refresh cycle starts its two tasks.
population_submit ==
    /\ prod = "loop"
    /\ cycle < MaxCycles
    /\ cycle' = cycle + 1
    /\ task' = [ust |-> At(1, "acquire"), fut |-> At(1, "acquire")]
    /\ prod' = "join"
    /\ UNCHANGED <<pub, cons, got, token, untokened, script>>
    /\ UNCHANGED <<pipeVars, bucketVars, restVars>>

\* A task has returned ("done") or has ended with an exception, which its
\* future keeps ("raised").
finished(t) == task[t].phase \in {"done", "raised"}

population_join_early ==
    /\ prod = "join"
    /\ prod' = "sleep"
    /\ UNCHANGED <<cycle, task, pub, cons, got, token, untokened, script>>
    /\ UNCHANGED <<pipeVars, bucketVars, restVars>>

\* The end of the with block waits for both tasks; then time.sleep(2).
population_join ==
    /\ prod = "join"
    /\ finished("ust") /\ finished("fut")
    /\ prod' = "sleep"
    /\ UNCHANGED <<cycle, task, pub, cons, got, token, untokened, script>>
    /\ UNCHANGED <<pipeVars, bucketVars, restVars>>

population_sleep ==
    /\ prod = "sleep"
    /\ prod' = "loop"
    /\ UNCHANGED <<cycle, task, pub, cons, got, token, untokened, script>>
    /\ UNCHANGED <<pipeVars, bucketVars, restVars>>

\* leaky_bucket.wait_for_token() returns in a refresh task.
task_wait_for_token(t) ==
    /\ task[t].phase = "acquire"
    /\ token' = [token EXCEPT ![t] = TRUE]
    /\ task' = [task EXCEPT ![t] = At(task[t].at, "request")]
    /\ UNCHANGED <<cycle, prod, pub, cons, got, untokened, script>>
    /\ UNCHANGED <<pipeVars, bucketVars, restVars>>

\* Future.discover, lines 56-58 and 62-64: on an empty security-definition
\* or market-data answer it logs and returns; config.FUTURES is not assigned.
return_unfetched_writing(p) == [p EXCEPT !.FUTURES = [cycle |-> cycle, stage |-> 1]]

return_unfetched(p) == p

\* The request after it, and where the task goes from there: to its next
\* request, to its writes, once more to scan_ust (scan_securities loops until
\* it has UST_SIZE bonds), to its end on an exception (the executor keeps
\* it) or, in discover, on an empty answer (lines 56-64).
task_request(t) ==
    /\ task[t].phase = "request"
    /\ send(t, program[t][task[t].at])
    /\ \E next \in {"on", "again", "raise", "empty"} :
          /\ next = "again" => t = "ust" /\ task[t].at = 1
          /\ next = "empty" => t = "fut" /\ task[t].at > 1
          /\ task' = [task EXCEPT ![t] =
                        CASE next = "on" -> IF task[t].at < Len(program[t])
                                            THEN At(task[t].at + 1, "acquire")
                                            ELSE At(1, "write")
                          [] next = "again" -> At(1, "acquire")
                          [] next = "raise" -> At(0, "raised")
                          [] OTHER -> At(0, "done")]
          /\ pub' = IF next = "empty" THEN return_unfetched(pub) ELSE pub
    /\ UNCHANGED <<cycle, prod, cons, got, script>>
    /\ UNCHANGED <<pipeVars, bucketVars, restVars>>

\* UST.scan, line 61: config.USTs = pd.DataFrame(self.USTs_List)
write_USTs ==
    /\ task.ust.phase = "write"
    /\ pub' = [pub EXCEPT !.USTs = cycle]
    /\ task' = [task EXCEPT !.ust = At(0, "done")]
    /\ UNCHANGED <<cycle, prod, cons, got, token, untokened, script>>
    /\ UNCHANGED <<pipeVars, bucketVars, restVars>>

\* Future.discover, lines 70, 71 and 74: config.FUTURES is written three
\* times, the frame as fetched, with its empty prices filled, with its prices
\* in decimal; line 80 then raises NameError (symbols_csv), which the
\* executor keeps.
write_FUTURES ==
    /\ task.fut.phase = "write"
    /\ pub' = [pub EXCEPT !.FUTURES = [cycle |-> cycle, stage |-> task.fut.at]]
    /\ task' = [task EXCEPT !.fut = IF task.fut.at < 3 THEN At(task.fut.at + 1, "write")
                                    ELSE At(0, "raised")]
    /\ UNCHANGED <<cycle, prod, cons, got, token, untokened, script>>
    /\ UNCHANGED <<pipeVars, bucketVars, restVars>>

\* business_logic_function, line 23: both universes are there; else line 54.
consumer_check ==
    /\ cons = "check"
    /\ cons' = IF pub.USTs > 0 /\ pub.FUTURES.cycle > 0 THEN "wait_for_slot" ELSE "sleep"
    /\ UNCHANGED <<cycle, prod, task, pub, got, token, untokened, script>>
    /\ UNCHANGED <<pipeVars, bucketVars, restVars>>

\* Line 26: leaky_bucket_orders.wait_for_slot() returns.
consumer_wait_for_slot ==
    /\ cons = "wait_for_slot"
    /\ cons' = "read_FUTURES"
    /\ UNCHANGED <<cycle, prod, task, pub, got, token, untokened, script>>
    /\ UNCHANGED <<pipeVars, bucketVars, restVars>>

\* Line 34: the arguments config.FUTURES and config.USTs are read one after
\* the other.
consumer_read_FUTURES ==
    /\ cons = "read_FUTURES"
    /\ got' = [got EXCEPT !.FUTURES = pub.FUTURES]
    /\ cons' = "read_USTs"
    /\ UNCHANGED <<cycle, prod, task, pub, token, untokened, script>>
    /\ UNCHANGED <<pipeVars, bucketVars, restVars>>

consumer_read_USTs ==
    /\ cons = "read_USTs"
    /\ got' = [got EXCEPT !.USTs = pub.USTs]
    /\ cons' = "hedge"
    /\ UNCHANGED <<cycle, prod, task, pub, token, untokened, script>>
    /\ UNCHANGED <<pipeVars, bucketVars, restVars>>

\* Lines 34-52 between the requests: process_futures_data and
\* run_fixed_income_calculation, then calculate_quantities; an exception
\* ends the thread.
consumer_compute ==
    /\ cons \in {"hedge", "size"}
    /\ \E raised \in BOOLEAN :
          cons' = IF raised THEN "dead"
                  ELSE IF cons = "hedge" THEN "acct_acquire" ELSE "order_acquire"
    /\ UNCHANGED <<cycle, prod, task, pub, got, token, untokened, script>>
    /\ UNCHANGED <<pipeVars, bucketVars, restVars>>

\* get_acct_dets, line 25, and orderRequest, line 43: wait_for_token returns.
consumer_wait_for_token ==
    /\ cons \in {"acct_acquire", "order_acquire"}
    /\ token' = [token EXCEPT !["consumer"] = TRUE]
    /\ cons' = IF cons = "acct_acquire" THEN "acct_request" ELSE "order_request"
    /\ UNCHANGED <<cycle, prod, task, pub, got, untokened, script>>
    /\ UNCHANGED <<pipeVars, bucketVars, restVars>>

\* get_acct_dets, line 28, and orderRequest, line 49: the request; an
\* exception of it ends the thread.
consumer_request ==
    /\ cons \in {"acct_request", "order_request"}
    /\ send("consumer", IF cons = "acct_request" THEN "KPIs2_Orders.get_acct_dets"
                        ELSE "orders.orderRequest")
    /\ \E raised \in BOOLEAN :
          cons' = IF raised THEN "dead"
                  ELSE IF cons = "acct_request" THEN "size" ELSE "sleep"
    /\ UNCHANGED <<cycle, prod, task, pub, got, script>>
    /\ UNCHANGED <<pipeVars, bucketVars, restVars>>

\* Line 54: time.sleep(.000001)
consumer_sleep ==
    /\ cons = "sleep"
    /\ cons' = "check"
    /\ UNCHANGED <<cycle, prod, task, pub, got, token, untokened, script>>
    /\ UNCHANGED <<pipeVars, bucketVars, restVars>>

\* futures_index.py run as a script: main() calls fetch_futures_chains, whose
\* requests.get (line 15) follows no acquire.
fetch_futures_chains ==
    /\ script = "main"
    /\ send("script", "futures_index.fetch_futures_chains")
    /\ script' = "done"
    /\ UNCHANGED <<cycle, prod, task, pub, cons, got>>
    /\ UNCHANGED <<pipeVars, bucketVars, restVars>>

\* main.py, lines 56-57: the main thread sleeps in a loop; an interrupt
\* (Ctrl-C, a signal) ends it there.  Nothing is set for the two daemon
\* threads or the executor's workers to read: population_function and
\* business_logic_function loop on while True, and wait_for_token,
\* wait_for_slot and time.sleep take no event or timeout.
request_shutdown ==
    /\ ~shutdown
    /\ shutdown' = TRUE
    /\ UNCHANGED <<pipeVars, threadVars, bucketVars, fetchVars, ytmVars, callVars>>

InitThreads ==
    /\ cycle = 0
    /\ prod = "loop"
    /\ task = [ust |-> At(0, "done"), fut |-> At(0, "done")]
    /\ pub = [USTs |-> 0, FUTURES |-> [cycle |-> 0, stage |-> 0]]
    /\ cons = "check"
    /\ got = [USTs |-> 0, FUTURES |-> [cycle |-> 0, stage |-> 0]]
    /\ token = [t \in Threads |-> FALSE]
    /\ untokened = {}
    /\ script = "main"
    /\ shutdown = FALSE

----------------------------------------------------------------------------
(* The rate limiter (SpecBucket).  leaky_bucket.py and                      *)
(* leaky_bucket_orders.py are not among the sources; this is the gate of    *)
(* spec section 4.6: fixed capacity, a refill of fixed amount every         *)
(* interval, and one blocking acquire that takes a token atomically.        *)

Capacity == 2
RefillAmount == 1
Interval == 2
MaxTime == 5
NumCallers == 3

Callers == 1..NumCallers

\* The token count after a refill.
refill_uncapped(n) == n + RefillAmount

refill_to(n) == Min(Capacity, n + RefillAmount)

RefillDue == now % Interval = 0 /\ ~refilled

\* A thread calls acquire and is suspended.
acquire_call(t) ==
    /\ t \notin waiting
    /\ waiting' = waiting \cup {t}
    /\ UNCHANGED <<now, tokens, refilled, granted>>
    /\ UNCHANGED <<pipeVars, threadVars, restVars>>

\* A token is available: a suspended thread takes it, in one step, and
\* returns from acquire.
acquire_grant(t) ==
    /\ t \in waiting
    /\ tokens > 0
    /\ tokens' = tokens - 1
    /\ waiting' = waiting \ {t}
    /\ granted' = [granted EXCEPT ![now] = @ + 1]
    /\ UNCHANGED <<now, refilled>>
    /\ UNCHANGED <<pipeVars, threadVars, restVars>>

\* The refill timer fires, once at every multiple of the interval.
refill ==
    /\ RefillDue
    /\ tokens' = refill_to(tokens)
    /\ refilled' = TRUE
    /\ UNCHANGED <<now, granted, waiting>>
    /\ UNCHANGED <<pipeVars, threadVars, restVars>>

\* Time passes, the refill of this instant made.
tick ==
    /\ now < MaxTime
    /\ ~RefillDue
    /\ now' = now + 1
    /\ refilled' = FALSE
    /\ UNCHANGED <<tokens, granted, waiting>>
    /\ UNCHANGED <<pipeVars, threadVars, restVars>>

InitBucket ==
    /\ now = 0
    /\ tokens \in 0..Capacity
    /\ refilled = FALSE
    /\ granted = [u \in 0..MaxTime |-> 0]
    /\ waiting = {}

ParkedBucket == InitBucket /\ tokens = Capacity

----------------------------------------------------------------------------
(* contract.py and market_data.py: the batched requests (SpecFetch)         *)

BatchSize == 2
MaxContracts == 5

\* contracts: a list of items with a con_id (or conid).
ContractLists == {[k \in 1..n |-> 100 + k] : n \in 0..MaxContracts}

\* contracts[i:i + batch_size], i counted from 0.
batch_contracts(contracts, i) ==
    SubSeq(contracts, i + 1, Min(i + BatchSize, Len(contracts)))

\* What a request can come back with: a status and a body, under status 200
\* a list of records for some of the contracts asked for
\* (response.json()["secdef"] or response.json()), otherwise an error
\* payload (0).
Responses(batch) ==
    {[status_code |-> 500, body |-> <<0>>]}
        \cup {[status_code |-> 200, body |-> b] :
                 b \in {batch, <<>>, SubSeq(batch, 1, 1)}}

\* Lines 47-54 (contract.py), 59-66 (market_data.py): what the list is after
\* a response.
extend_always(out, response) == out \o response.body

extend(out, response) ==
    IF response.status_code # 200 THEN out ELSE out \o response.body

\* One turn of the loop of fn: the batch's request and what is done with its
\* response; after the last batch the function returns the list.  An
\* exception of requests.get leaves the function.
batch_loop(fn) ==
    /\ fetchFn = fn
    /\ fetchPc = "loop"
    /\ LET batch == batch_contracts(fetchContracts, fetchI)
       IN  \/ \E response \in Responses(batch) :
                /\ fetchLog' = Append(fetchLog, [conids |-> batch, response |-> response])
                /\ fetchOut' = extend(fetchOut, response)
                /\ fetchI' = fetchI + BatchSize
                /\ fetchPc' = IF fetchI + BatchSize < Len(fetchContracts)
                              THEN "loop" ELSE "returned"
           \/ /\ fetchPc' = "raised"
              /\ UNCHANGED <<fetchI, fetchOut, fetchLog>>
    /\ UNCHANGED <<fetchFn, fetchContracts>>
    /\ UNCHANGED <<pipeVars, threadVars, bucketVars, ytmVars, callVars, mainVars>>

\* Contract.get_security_definition(contracts, batch_size)
get_security_definition == batch_loop("get_security_definition")

\* MarketData.get_market_data(contracts, fields, batch_size)
get_market_data == batch_loop("get_market_data")

\* A call: range(0, len(contracts), batch_size) is empty for no contracts.
InitFetch ==
    /\ fetchFn \in {"get_security_definition", "get_market_data"}
    /\ fetchContracts \in ContractLists
    /\ fetchI = 0
    /\ fetchOut = <<>>
    /\ fetchLog = <<>>
    /\ fetchPc = IF fetchContracts = <<>> THEN "returned" ELSE "loop"

ParkedFetch ==
    InitFetch /\ fetchFn = "get_security_definition" /\ fetchContracts = <<>>

----------------------------------------------------------------------------
(* fixed_income_calc.py: calculate_ytm (SpecYtm)                            *)

\* A float of calculate_ytm is <<s, m, e>>: the sign s (0 for 0.0), the
\* mantissa m of Limbs digits in base Radix, the first one not 0, and the
\* exponent e of the first digit; its value is s * m[1].m[2]...m[Limbs] *
\* Radix^e.  That is 13 to 15 decimal digits where a double has 15 to 17;
\* results are rounded to the nearest float.  The range is that of a double:
\* above MaxMant * Radix^MaxExp a result is out of range, under Radix^MinExp
\* it is 0.0.
Radix == 1000
Limbs == 5
MaxExp == 102
MinExp == -108
MaxMant == <<179, 769, 313, 486, 231>>

Zeros(n) == [i \in 1..n |-> 0]
FZero == <<0, Zeros(Limbs), 0>>
NotFinite == <<2, Zeros(Limbs), 0>>       \* inf or nan
IsFinite(x) == x[1] # 2

Sgn(n) == IF n < 0 THEN -1 ELSE 1

\* The digits of a number given by digits c that are out of 0..Radix-1, the
\* first one 0: carries and borrows go from the last digit to the first.
RECURSIVE Carried(_, _, _, _)
Carried(c, i, carry, acc) ==
    IF i = 0 THEN acc
    ELSE Carried(c, i - 1, (c[i] + carry) \div Radix, <<(c[i] + carry) % Radix>> \o acc)

Normal(c) == Carried(c, Len(c), 0, <<>>)

\* 1, 0 or -1 as a is more, the same or less than b, digits from i on.
RECURSIVE Cmp(_, _, _)
Cmp(a, b, i) ==
    IF i > Len(a) THEN 0
    ELSE IF a[i] # b[i] THEN (IF a[i] > b[i] THEN 1 ELSE -1)
    ELSE Cmp(a, b, i + 1)

RECURSIVE LeadingZeros(_, _)
LeadingZeros(m, k) == IF k < Len(m) /\ m[k + 1] = 0 THEN LeadingZeros(m, k + 1) ELSE k

FRange(s, m, e) ==
    IF e > MaxExp \/ (e = MaxExp /\ Cmp(m, MaxMant, 1) = 1) THEN NotFinite
    ELSE IF e < MinExp THEN FZero
    ELSE <<s, m, e>>

RoundedUp(s, m, e) ==
    IF m[1] # 0 THEN FRange(s, SubSeq(m, 1, Limbs), e + 1)
    ELSE FRange(s, SubSeq(m, 2, Limbs + 1), e)

\* m has more than Limbs digits, the first one not 0.
Rounded(s, m, e) ==
    IF 2 * m[Limbs + 1] < Radix THEN FRange(s, SubSeq(m, 1, Limbs), e)
    ELSE RoundedUp(s, Normal(<<0>> \o SubSeq(m, 1, Limbs - 1) \o <<m[Limbs] + 1>>), e)

FitFrom(s, m, e, z) ==
    IF z = Len(m) THEN FZero
    ELSE Rounded(s, SubSeq(m, z + 1, Len(m)) \o Zeros(Limbs), e - z)

\* The float nearest to s * m[1].m[2]... * Radix^e, for digits m.
Fit(s, m, e) == FitFrom(s, m, e, LeadingZeros(m, 0))

\* A whole number under Radix^3.
FromInt(n) ==
    Fit(Sgn(n), <<Abs(n) \div (Radix * Radix), (Abs(n) \div Radix) % Radix, Abs(n) % Radix>>, 2)

FNeg(x) == IF IsFinite(x) THEN <<-x[1], x[2], x[3]>> ELSE x
FAbs(x) == IF IsFinite(x) THEN <<Abs(x[1]), x[2], x[3]>> ELSE x

\* a + b or a - b for digits a, b of one length, the first ones 0.
AddSigned(sx, a, sy, b, e, cmp) ==
    IF sx = sy THEN Fit(sx, Normal(Column([i \in 1..Len(a) |-> a[i] + b[i]])), e)
    ELSE IF cmp = 0 THEN FZero
    ELSE IF cmp = 1 THEN Fit(sx, Normal(Column([i \in 1..Len(a) |-> a[i] - b[i]])), e)
    ELSE Fit(sy, Normal(Column([i \in 1..Len(a) |-> b[i] - a[i]])), e)

AddLimbs(sx, a, sy, b, e) == AddSigned(sx, a, sy, b, e, Cmp(a, b, 1))

\* x + y for x[3] >= y[3], both not 0, the digits of y moved d places.
AddAligned(x, y, d) ==
    IF d > Limbs + 1 THEN x
    ELSE AddLimbs(x[1], <<0>> \o x[2] \o Zeros(d), y[1], Zeros(d + 1) \o y[2], x[3] + 1)

FAdd(x, y) ==
    IF ~IsFinite(x) \/ ~IsFinite(y) THEN NotFinite
    ELSE IF x[1] = 0 THEN y
    ELSE IF y[1] = 0 THEN x
    ELSE IF x[3] >= y[3] THEN AddAligned(x, y, x[3] - y[3])
    ELSE AddAligned(y, x, y[3] - x[3])

FSub(x, y) == FAdd(x, FNeg(y))

\* Digit k of the product of a and b before the carries: the sum of
\* a[i] * b[k + 1 - i] for i from lo to hi.
RECURSIVE ConvSum(_, _, _, _, _)
ConvSum(a, b, k, i, hi) ==
    IF i > hi THEN 0 ELSE a[i] * b[k + 1 - i] + ConvSum(a, b, k, i + 1, hi)

Conv(a, b) ==
    Column([k \in 1..(2 * Limbs - 1) |->
               ConvSum(a, b, k, IF k > Limbs THEN k + 1 - Limbs ELSE 1, Min(Limbs, k))])

FMul(x, y) ==
    IF ~IsFinite(x) \/ ~IsFinite(y) THEN NotFinite
    ELSE IF x[1] = 0 \/ y[1] = 0 THEN FZero
    ELSE Fit(x[1] * y[1], Normal(<<0>> \o Conv(x[2], y[2])), x[3] + y[3] + 1)

\* Long division of digits: r the remainder so far and b the divisor, both of
\* Limbs + 1 digits with r under Radix * b; q the digits of the quotient so
\* far, k digits to go.  A digit is guessed from the first three digits of r
\* and b, not too high, and raised while the remainder allows.
Top3(r) == (r[1] * Radix + r[2]) * Radix + r[3]

RECURSIVE DivLimbs(_, _, _, _)
RECURSIVE DivFix(_, _, _, _, _)
DivFix(rem, b, k, q, digit) ==
    IF Cmp(rem, b, 1) >= 0
    THEN DivFix(Normal(Column([i \in 1..Len(b) |-> rem[i] - b[i]])), b, k, q, digit + 1)
    ELSE DivLimbs(Tail(rem) \o <<0>>, b, k - 1, q \o <<digit>>)

DivGuess(r, b, k, q, digit) ==
    DivFix(Normal(Column([i \in 1..Len(b) |-> r[i] - digit * b[i]])), b, k, q, digit)

DivLimbs(r, b, k, q) ==
    IF k = 0 THEN q ELSE DivGuess(r, b, k, q, Top3(r) \div (Top3(b) + 1))

\* x / y for y not 0.0.
FDiv(x, y) ==
    IF ~IsFinite(x) \/ ~IsFinite(y) THEN NotFinite
    ELSE IF x[1] = 0 THEN FZero
    ELSE Fit(x[1] * y[1], DivLimbs(<<0>> \o x[2], <<0>> \o y[2], Limbs + 2, <<>>), x[3] - y[3])

FLt(x, y) == IsFinite(x) /\ IsFinite(y) /\ FSub(x, y)[1] = -1

\* round(x, 5): 10^-5 is ten units of the digit of Radix^-2, digit e + 3 of
\* the mantissa of x; the decimals after it decide, a half goes to the even
\* side.
RoundsUp(last, rest) ==
    \/ last % 10 > 5
    \/ last % 10 = 5 /\ (rest \/ (last \div 10) % 2 = 1)

RoundLimbs(s, m, e, i) ==
    Fit(s, Normal(<<0>> \o SubSeq(m, 1, i - 1)
                  \o <<m[i] - (m[i] % 10)
                        + (IF RoundsUp(m[i], \E j \in (i + 1)..Limbs : m[j] # 0) THEN 10 ELSE 0)>>),
        e + 1)

FRound5(x) ==
    IF ~IsFinite(x) \/ x[1] = 0 \/ x[3] + 3 > Limbs THEN x
    ELSE IF x[3] + 3 < 1 THEN FZero
    ELSE RoundLimbs(x[1], x[2], x[3], x[3] + 3)

\* The arguments of the calls: market_price, face_value and coupon_rate are
\* whole numbers here, time_to_maturity is in quarters of a year.
MaxCalls == 2

ytm_args(market_price, coupon_rate, time_to_maturity) ==
    [market_price |-> market_price, face_value |-> 100, coupon_rate |-> coupon_rate,
     time_to_maturity |-> time_to_maturity, periods_per_year |-> 2, n_digits |-> 5]

YtmInputs ==
    { ytm_args(100, 5, 40), ytm_args(95, 5, 40), ytm_args(101, 2, 2),
      ytm_args(100, 5, 1), ytm_args(0, 0, 80), ytm_args(10000, 1, 100) }

\* Lines 88-90 and 99-101.
market_price_of(args) ==
    FMul(FDiv(FromInt(args.market_price), FromInt(100)), FromInt(args.face_value))
coupon_rate_of(args) == FDiv(FromInt(args.coupon_rate), FromInt(100))
coupon_payment(args) ==
    FDiv(FMul(FromInt(args.face_value), coupon_rate_of(args)), FromInt(args.periods_per_year))
\* int(time_to_maturity * periods_per_year)
num_periods(args) == (args.time_to_maturity * args.periods_per_year) \div 4

tolerance == <<1, <<10, 0, 0, 0, 0>>, -3>>            \* 1e-8
max_iterations == 1000
delta_ytm == <<1, <<10, 0, 0, 0, 0>>, -2>>            \* 1e-5
min_derivative == <<1, <<1, 0, 0, 0, 0>>, -4>>        \* 1e-12

\* Lines 92-97: bond_price(ytm).  The state of its loop before term t: pv the
\* sum so far, power the value of (1 + ytm / periods_per_year) ** t and last
\* that of the term before.  A power out of range is an OverflowError, a
\* division by a power that is 0.0 a ZeroDivisionError.
price_term(args, base, s) ==
    IF ~IsFinite(s.power) THEN [s EXCEPT !.raised = "OverflowError"]
    ELSE IF s.power[1] = 0 THEN [s EXCEPT !.raised = "ZeroDivisionError"]
    ELSE [raised |-> "", t |-> s.t + 1,
          pv |-> FAdd(s.pv, FDiv(coupon_payment(args), s.power)),
          power |-> FMul(s.power, base), last |-> s.power]

\* k terms of the loop, one after the other.
RECURSIVE price_terms(_, _, _, _)
price_terms(args, base, s, k) ==
    IF k = 0 \/ s.raised # "" THEN s
    ELSE price_terms(args, base, price_term(args, base, s), k - 1)

\* The terms that are left, eight at a time.
RECURSIVE price_loop(_, _, _)
price_loop(args, base, s) ==
    IF s.raised # "" \/ s.t > num_periods(args) THEN s
    ELSE price_loop(args, base,
                    price_terms(args, base, s, Min(8, num_periods(args) - s.t + 1)))

\* Line 96: the face value over the last power.
price_of_loop(args, s) ==
    [raised |-> s.raised,
     value |-> IF s.raised # "" THEN FZero
               ELSE FAdd(s.pv, FDiv(FromInt(args.face_value), s.last))]

price_from(args, base) ==
    price_of_loop(args, price_loop(args, base,
        [raised |-> "", t |-> 1, pv |-> FZero, power |-> base, last |-> FromInt(1)]))

bond_price(args, y) ==
    price_from(args, FAdd(FromInt(1), FDiv(y, FromInt(args.periods_per_year))))

\* Lines 119-123, with ytm_new worked out.
test_convergence(args, y, ytm_new) ==
    IF FLt(FAbs(FSub(ytm_new, y)), tolerance)
    THEN [kind |-> "converged", value |-> FRound5(ytm_new)]
    ELSE [kind |-> "continue", value |-> ytm_new]

\* Lines 112-119, with price_derivative worked out.
newton_update(args, y, price_at_ytm, price_derivative) ==
    IF FLt(FAbs(price_derivative), min_derivative)
    THEN [kind |-> "derivative", value |-> y]
    ELSE test_convergence(args, y,
            FSub(y, FDiv(FSub(price_at_ytm, market_price_of(args)), price_derivative)))

\* Lines 106-112: the three prices in the order the code asks for them.
with_price_down(args, y, price_at_ytm, price_up, price_down) ==
    IF price_down.raised # "" THEN [kind |-> price_down.raised, value |-> y]
    ELSE newton_update(args, y, price_at_ytm,
                       FDiv(FSub(price_up, price_down.value), FMul(FromInt(2), delta_ytm)))

with_price_up(args, y, price_at_ytm, price_up) ==
    IF price_up.raised # "" THEN [kind |-> price_up.raised, value |-> y]
    ELSE with_price_down(args, y, price_at_ytm, price_up.value,
                         bond_price(args, FSub(y, delta_ytm)))

with_price_at_ytm(args, y, price_at_ytm) ==
    IF price_at_ytm.raised # "" THEN [kind |-> price_at_ytm.raised, value |-> y]
    ELSE with_price_up(args, y, price_at_ytm.value, bond_price(args, FAdd(y, delta_ytm)))

\* One turn of the for loop, lines 104-123.
newton_turn(args, y) == with_price_at_ytm(args, y, bond_price(args, y))

\* calculate_bond_metrics, line 326: the call of calculate_ytm, up to its loop.
calculate_ytm ==
    /\ ytmPc = "idle"
    /\ ytmCalls < MaxCalls
    /\ \E args \in YtmInputs :
          /\ ytmArgs' = args
          /\ ytm' = coupon_rate_of(args)
    /\ ytmIter' = 0
    /\ ytmPc' = "loop"
    /\ ytmExit' = ""
    /\ ytmCalls' = ytmCalls + 1
    /\ UNCHANGED <<ytmResult, ytmSeen>>
    /\ UNCHANGED <<pipeVars, threadVars, bucketVars, fetchVars, callVars, mainVars>>

\* What a turn of the loop leaves: a return, an exception, or the next turn;
\* after the last turn the loop ends and ytm is returned (line 125).
leave_turn(out) ==
    IF out.kind = "continue"
    THEN /\ ytm' = out.value
         /\ ytmIter' = ytmIter + 1
         /\ IF ytmIter + 1 = max_iterations
            THEN ytmPc' = "returned" /\ ytmExit' = "limit" /\ ytmResult' = out.value
            ELSE UNCHANGED <<ytmPc, ytmExit, ytmResult>>
    ELSE IF out.kind \in {"converged", "derivative"}
    THEN /\ ytmPc' = "returned"
         /\ ytmExit' = out.kind
         /\ ytmResult' = out.value
         /\ UNCHANGED <<ytm, ytmIter>>
    ELSE /\ ytmPc' = "raised"
         /\ ytmExit' = out.kind
         /\ UNCHANGED <<ytm, ytmIter, ytmResult>>

newton_iteration ==
    /\ ytmPc = "loop"
    /\ leave_turn(newton_turn(ytmArgs, ytm))
    /\ UNCHANGED <<ytmArgs, ytmSeen, ytmCalls>>
    /\ UNCHANGED <<pipeVars, threadVars, bucketVars, fetchVars, callVars, mainVars>>

\* calculate_bond_metrics, lines 326-327: the value of the call is all that
\* comes back.
calculate_bond_metrics ==
    /\ ytmPc = "returned"
    /\ ytmSeen' = ytmSeen \cup {[value |-> ytmResult, site |-> ytmExit]}
    /\ ytmPc' = "idle"
    /\ UNCHANGED <<ytmArgs, ytmIter, ytm, ytmExit, ytmResult, ytmCalls>>
    /\ UNCHANGED <<pipeVars, threadVars, bucketVars, fetchVars, callVars, mainVars>>

InitYtm ==
    /\ ytmArgs = ytm_args(0, 0, 0)
    /\ ytmIter = 0
    /\ ytm = FZero
    /\ ytmPc = "idle"
    /\ ytmExit = ""
    /\ ytmResult = FZero
    /\ ytmSeen = {}
    /\ ytmCalls = 0

ParkedYtm == InitYtm

\* No call of a library function is under way.
ParkedCall ==
    /\ callFn = ""
    /\ callArgs = <<>>
    /\ callPc = "returned"
    /\ callResult = <<>>

----------------------------------------------------------------------------
(* fixed_income_calc.py: compute_ust_kpis (SpecKpis)                        *)

\* A field of a bond record holds a usable value "v", or is missing: None,
\* a float NaN "nan", or the empty string "".
FieldValues == {"v", "None", "nan", ""}

KpiItems ==
    [issue_date : {"v", "None"}, maturity_date : {"v", "None"},
     coupon_rate : FieldValues, coupon_prev_date : FieldValues, coupon_ncpdt : FieldValues,
     principal_value : FieldValues, ask_price : FieldValues, bid_price : FieldValues,
     last_price : FieldValues]

\* pd.notna(x) and x != ""
notna_nonempty(x) == x \notin {"None", "nan"} /\ x # ""

\* Lines 383-392: last_price is not among the fields tested.
is_valid(item) ==
    \A f \in {"ask_price", "bid_price", "issue_date", "maturity_date", "coupon_rate",
              "coupon_prev_date", "coupon_ncpdt", "principal_value"} : notna_nonempty(item[f])

\* Lines 394-438.  float(None) is a TypeError, float("") a ValueError and
\* float(nan) is nan, which goes through calculate_bond_metrics into the
\* price, yield, duration, DV01 and convexity of the result.
compute_ust_kpis(item) ==
    IF ~is_valid(item) THEN [pc |-> "returned", result |-> None]
    ELSE IF item.last_price = "None" THEN [pc |-> "raised", result |-> Some("TypeError")]
    ELSE IF item.last_price = "" THEN [pc |-> "raised", result |-> Some("ValueError")]
    ELSE [pc |-> "returned",
          result |-> Some([time_to_maturity |-> "v", mols_bond_price |-> item.last_price])]

leave_call(out) ==
    /\ callPc' = out.pc
    /\ callResult' = out.result
    /\ UNCHANGED <<callFn, callArgs>>
    /\ UNCHANGED <<pipeVars, threadVars, bucketVars, fetchVars, ytmVars, mainVars>>

call_compute_ust_kpis ==
    /\ callFn = "compute_ust_kpis"
    /\ callPc = "called"
    /\ leave_call(compute_ust_kpis(callArgs))

----------------------------------------------------------------------------
(* cf_ctd.py: find_conversion_factor on long bond columns (SpecSelect)      *)

\* argsort() of a Series is numpy's quicksort, which is not a stable sort: a
\* column of up to SMALL_QUICKSORT entries is sorted by insertion, equal
\* entries keeping their order; above that the place of equal entries is
\* whatever the partitioning of the build leaves.
SMALL_QUICKSORT == 16

IsLeast(filtered, futures_price, i) ==
    \A j \in 1..Len(filtered) :
        Stage1Dist(filtered[i], futures_price) <= Stage1Dist(filtered[j], futures_price)

\* The positions argsort()[:1] can give.
argsort_heads(filtered, futures_price) ==
    IF Len(filtered) <= SMALL_QUICKSORT
    THEN {CHOOSE i \in 1..Len(filtered) :
              /\ IsLeast(filtered, futures_price, i)
              /\ \A j \in 1..(i - 1) : ~IsLeast(filtered, futures_price, j)}
    ELSE {i \in 1..Len(filtered) : IsLeast(filtered, futures_price, i)}

\* Lines 38-72, from the position stage one selected.
match_cf(a, sel) ==
    LET found == scan_cf(a.sheet, a.filtered[sel].price * a.futures_price, 1,
                         [best_match |-> None, min_diff |-> None,
                          best_coupon |-> None, best_years_months |-> None])
    IN  [pc |-> "returned",
         result |-> [selected |-> sel,
                     cf |-> found.best_match,
                     raw_coupon |-> found.best_coupon,
                     coupon |-> IF IsNone(found.best_coupon) THEN None
                                ELSE Some(round_to_nearest_quarter(Val(found.best_coupon))),
                     years_months |-> found.best_years_months]]

call_find_conversion_factor ==
    /\ callFn = "find_conversion_factor"
    /\ callPc = "called"
    /\ \E sel \in argsort_heads(callArgs.filtered, callArgs.futures_price) :
          leave_call(match_cf(callArgs, sel))

\* Eligible bonds of one bracket: short columns of every make-up, and columns
\* one longer than SMALL_QUICKSORT in which two bonds share the least price.
BondColumn(prices) == [i \in 1..Len(prices) |-> [con_id |-> i, price |-> prices[i]]]

ShortColumns == UNION {[1..n -> {4, 5}] : n \in 1..3}

LongColumns ==
    {[k \in 1..(SMALL_QUICKSORT + 1) |-> IF k = i \/ k = j THEN 4 ELSE 5] :
        i \in 1..3, j \in 4..(SMALL_QUICKSORT + 1)}

SelectInputs ==
    {[filtered |-> BondColumn(c), futures_price |-> fp, sheet |-> sh] :
        c \in ShortColumns \cup LongColumns, fp \in {1, 2}, sh \in {GoodSheet, EmptySheet}}

----------------------------------------------------------------------------
(* orders.py: orderRequest, step by step (SpecOrders)                       *)

\* round(x) of Python: to the nearest integer, a tie to the even one.
py_round(x) ==
    LET f == RFloor(x)
        d == RSub(x, RInt(f))
    IN  IF RLt(d, Rat(1, 2)) THEN f
        ELSE IF RLt(Rat(1, 2), d) THEN f + 1
        ELSE IF f % 2 = 0 THEN f ELSE f + 1

\* round(x, 5)
round5(x) == Rat(py_round(RMul(x, RInt(100000))), 100000)

\* Lines 19-40: the JSON body, out of ORDERS[0] alone.
json_body(ORD) ==
    [conidex |-> <<ORD[1].front_conId, py_round(ORD[1].front_ratio),
                   ORD[1].back_conId, py_round(ORD[1].back_ratio)>>,
     orderType |-> "LMT", price |-> round5(ORD[1].price), side |-> "BUY", tif |-> "DAY",
     quantity |-> ORD[1].quantity]

\* Order instructions as calculate_quantities writes them (KPIs2_Orders.py
\* lines 179-204), and the lists of three it leaves in config.ORDERS.
OrderInstructions ==
    { [front_conId |-> 11, front_ratio |-> Rat(-3, 2), back_conId |-> 21,
       back_ratio |-> Rat(1, 2), quantity |-> 1, price |-> Rat(-3, 8)],
      [front_conId |-> 12, front_ratio |-> Rat(5, 4), back_conId |-> 21,
       back_ratio |-> Rat(-3, 4), quantity |-> 1, price |-> Rat(1, 3)],
      [front_conId |-> 11, front_ratio |-> Rat(0, 1), back_conId |-> 22,
       back_ratio |-> Rat(0, 1), quantity |-> 0, price |-> Rat(0, 1)],
      [front_conId |-> 12, front_ratio |-> Rat(5, 2), back_conId |-> 22,
       back_ratio |-> Rat(-1, 1), quantity |-> 1, price |-> Rat(7, 1)] }

OrderLists == [1..3 -> OrderInstructions]

\* What the POST can come back with; "raise" is an exception of requests.post.
PostOutcomes == {"200", "400", "500", "raise"}

\* Lines 19-40.
order_body ==
    /\ callFn = "orderRequest"
    /\ callPc = "called"
    /\ leave_call([pc |-> "wait_for_token",
                   result |-> [body |-> json_body(callArgs), acquired |-> 0,
                               posts |-> <<>>, status |-> ""]])

\* Line 43: leaky_bucket.wait_for_token() returns.
order_wait_for_token ==
    /\ callFn = "orderRequest"
    /\ callPc = "wait_for_token"
    /\ leave_call([pc |-> "post",
                   result |-> [callResult EXCEPT !.acquired = callResult.acquired + 1]])

\* Lines 51-52 follow the POST whatever its status.
after_post_retrying(status) ==
    IF status = "raise" THEN "raised" ELSE IF status = "200" THEN "print" ELSE "wait_for_token"

after_post(status) == IF status = "raise" THEN "raised" ELSE "print"

\* Line 49: requests.post(url, json=json_body)
order_post ==
    /\ callFn = "orderRequest"
    /\ callPc = "post"
    /\ \E status \in PostOutcomes :
          leave_call([pc |-> after_post(status),
                      result |-> [callResult EXCEPT !.posts = Append(callResult.posts, callResult.body),
                                                    !.status = status]])

\* Lines 51-52: the status and the text are printed; the call returns None.
order_print ==
    /\ callFn = "orderRequest"
    /\ callPc = "print"
    /\ leave_call([pc |-> "returned", result |-> callResult])

----------------------------------------------------------------------------
(* ctd_fut_kpis.py and fixed_income_calc.py: the closed forms of a hedge    *)
(* row (SpecForms)                                                          *)

\* pow(x, n) for a natural n
RECURSIVE RPow(_, _)
RPow(x, n) == IF n = 0 THEN RInt(1) ELSE RMul(x, RPow(x, n - 1))

\* A date is the number of its day; a value is true in a test when it is not
\* None (a date string is never empty).
truthy(x) == ~IsNone(x)

\* accrual_period, day_count = 1: (S - L).days / (N - L).days
accrual_period(begin, settle, next_coupon) ==
    Rat(Val(settle) - Val(begin), Val(next_coupon) - Val(begin))

\* fixed_income_calc.py, line 164: the price on a coupon date.
clean_price(C, Y, T) ==
    RAdd(RDiv(RMul(C, RSub(RInt(1), RDiv(RInt(1), RPow(RAdd(RInt(1), Y), T)))), Y),
         RDiv(RInt(100), RPow(RAdd(RInt(1), Y), T)))

\* The result of a closed form: which form gave it, the accrual fraction v it
\* used, and its value; the accrual-adjusted forms hold pow(1 + Y, v), which
\* no rational denotes, and their value is left out.
OnCouponDate(value) == [form |-> "coupon_date", v |-> None, value |-> Some(value)]
AccrualAdjusted(v) == [form |-> "accrual", v |-> Some(v), value |-> None]

\* BPrice(cpn, term, yield_, period, begin, settle, next_coupon, day_count=1);
\* term * period is a whole number of periods here.
BPrice(cpn, term, yield_, period, begin, settle, next_coupon) ==
    IF truthy(begin) /\ truthy(settle) /\ truthy(next_coupon)
    THEN AccrualAdjusted(accrual_period(begin, settle, next_coupon))
    ELSE OnCouponDate(clean_price(Rat(cpn, period), RDiv(yield_, RInt(period)),
                                  RFloor(RMul(term, RInt(period)))))

\* Line 195 of MDur: the duration on a coupon date.
mdur_on_coupon_date(C, Y, T, period) ==
    RDiv(RAdd(RMul(RDiv(C, RMul(Y, Y)), RSub(RInt(1), RDiv(RInt(1), RPow(RAdd(RInt(1), Y), T)))),
              RDiv(RMul(RInt(T), RSub(RInt(100), RDiv(C, Y))), RPow(RAdd(RInt(1), Y), T + 1))),
         RMul(RInt(period), clean_price(C, Y, T)))

MDur(cpn, term, yield_, period, begin, settle, next_coupon) ==
    IF truthy(begin) /\ truthy(settle) /\ truthy(next_coupon)
    THEN AccrualAdjusted(accrual_period(begin, settle, next_coupon))
    ELSE OnCouponDate(mdur_on_coupon_date(Rat(cpn, period), RDiv(yield_, RInt(period)),
                                          RFloor(RMul(term, RInt(period))), period))

\* MDur(...) * (1 + yield_ / period)
MacDur(cpn, term, yield_, period, begin, settle, next_coupon) ==
    LET m == MDur(cpn, term, yield_, period, begin, settle, next_coupon)
    IN  IF m.form = "accrual" THEN m
        ELSE OnCouponDate(RMul(Val(m.value), RAdd(RInt(1), RDiv(yield_, RInt(period)))))

\* round(MDur(...) * P, 5)
DV01(cpn, term, yield_, period, begin, settle, next_coupon) ==
    LET m == MDur(cpn, term, yield_, period, begin, settle, next_coupon)
        P == BPrice(cpn, term, yield_, period, begin, settle, next_coupon)
    IN  IF m.form = "accrual" THEN m
        ELSE OnCouponDate(round5(RMul(Val(m.value), Val(P.value))))

\* ctd_fut_kpis.py, lines 23-57: the four closed forms of one row.  The calls
\* pass begin and next_coupon and leave settle at its default, None.
closed_forms(row) ==
    [pc |-> "returned",
     result |->
        [CTD_BPrice |-> BPrice(row.CTD_coupon_rate, row.CTD_ytm, row.CTD_yield, 2,
                               row.CTD_prev_cpn, None, row.CTD_ncpdt),
         CTD_MDur |-> MDur(row.CTD_coupon_rate, row.CTD_ytm, row.CTD_yield, 2,
                           row.CTD_prev_cpn, None, row.CTD_ncpdt),
         CTD_MacDur |-> MacDur(row.CTD_coupon_rate, row.CTD_ytm, row.CTD_yield, 2,
                               row.CTD_prev_cpn, None, row.CTD_ncpdt),
         CTD_DV01 |-> DV01(row.CTD_coupon_rate, row.CTD_ytm, row.CTD_yield, 2,
                           row.CTD_prev_cpn, None, row.CTD_ncpdt)]]

call_run_fixed_income_calculation ==
    /\ callFn = "run_fixed_income_calculation"
    /\ callPc = "called"
    /\ leave_call(closed_forms(callArgs))

\* Hedge rows: coupon, term in years, yield, and the two coupon dates, each
\* there or missing.
HedgeRows ==
    [CTD_coupon_rate : {2, 4, 6}, CTD_ytm : {Rat(1, 2), Rat(1, 1)},
     CTD_yield : {Rat(1, 12), Rat(2, 49), Rat(2, 19)},
     CTD_prev_cpn : {None, Some(100)}, CTD_ncpdt : {None, Some(282)}]

----------------------------------------------------------------------------
(* Future_index.py: convert_price_to_decimal (SpecPrices)                   *)

\* A price string is the sequence of its characters; a str that is looked up
\* in a dict is the sequence of its tokens, one token for a plain number.
DigitChars == <<"0", "1", "2", "3", "4", "5", "6", "7", "8", "9">>

IsDigits(s) == s # <<>> /\ \A i \in 1..Len(s) : \E d \in 1..10 : DigitChars[d] = s[i]
DigitOf(c) == (CHOOSE d \in 1..10 : DigitChars[d] = c) - 1

\* int(s) for a string of digits
RECURSIVE int_of(_)
int_of(s) == IF s = <<>> THEN 0 ELSE 10 * int_of(SubSeq(s, 1, Len(s) - 1)) + DigitOf(s[Len(s)])

RECURSIVE TenTo(_)
TenTo(k) == IF k = 0 THEN 1 ELSE 10 * TenTo(k - 1)

Count(s, c) == Cardinality({i \in 1..Len(s) : s[i] = c})
Find(s, c) == CHOOSE i \in 1..Len(s) : s[i] = c /\ \A j \in 1..(i - 1) : s[j] # c
Before(s, c) == SubSeq(s, 1, Find(s, c) - 1)
After(s, c) == SubSeq(s, Find(s, c) + 1, Len(s))

Returned(v) == [pc |-> "returned", result |-> Some(v)]
Raised(e) == [pc |-> "raised", result |-> Some(e)]

\* float(s) for s without a quote: digits with at most one point.
float_of(s) ==
    IF Count(s, ".") = 0
    THEN (IF IsDigits(s) THEN Returned(RInt(int_of(s))) ELSE Raised("ValueError"))
    ELSE IF Count(s, ".") = 1 /\ IsDigits(Before(s, ".") \o After(s, "."))
    THEN Returned(Rat(int_of(Before(s, ".") \o After(s, ".")), TenTo(Len(After(s, ".")))))
    ELSE Raised("ValueError")

\* Lines 253-258 and 286-292: the two dicts; get gives the default for a key
\* that is not there.
fut_type ==
    { <<<<"0.00390625">>, "half">>, <<<<"0.015625">>, "quarter">>,
      <<<<"0.03125">>, "eighth">>, <<<<"sixteenth">>, "sixteenth">> }

denominators == { <<"half", 2>>, <<"quarter", 4>>, <<"eighth", 8>>, <<"sixteenth", 16>> }

dict_get(dict, key, default) ==
    IF \E kv \in dict : kv[1] = key THEN (CHOOSE kv \in dict : kv[1] = key)[2] ELSE default

\* str(df["increment"]): the text of the whole column, a line with the index
\* and the value for each row and a last line with the name and the dtype.
RECURSIVE series_lines(_, _)
series_lines(df, i) ==
    IF i > Len(df) THEN <<"Name: increment, dtype: float64">>
    ELSE <<DigitChars[i], df[i].increment>> \o series_lines(df, i + 1)

str_of_increment(df) == series_lines(df, 1)

\* Lines 282-300, after the test for the quote: the fraction with a point.
fraction_with_point(whole, fraction, denominator) ==
    IF Count(fraction, ".") = 1 /\ IsDigits(Before(fraction, ".")) /\ IsDigits(After(fraction, "."))
    THEN Returned(RAdd(RInt(whole),
                       RAdd(Rat(int_of(Before(fraction, ".")), 32),
                            Rat(int_of(After(fraction, ".")), 32 * denominator))))
    ELSE Raised("ValueError")

quoted_price(whole, fraction, denominator) ==
    IF ~IsDigits(whole) THEN Raised("ValueError")
    ELSE IF Count(fraction, ".") > 0
    THEN fraction_with_point(int_of(whole), fraction, denominator)
    ELSE IF IsDigits(fraction)
    THEN Returned(RAdd(RInt(int_of(whole)), Rat(int_of(fraction), 32)))
    ELSE Raised("ValueError")

\* Lines 273-302.  kind is None or the name of the increment convention.
convert_futures_price(price, kind) ==
    IF Count(price, "'") = 0 THEN float_of(price)
    ELSE IF Count(price, "'") > 1 THEN Raised("ValueError")
    ELSE quoted_price(Before(price, "'"), After(price, "'"),
                      IF IsNone(kind) THEN 32 ELSE dict_get(denominators, Val(kind), 32))

\* Lines 258-263: x if x not in [None, ""] else 0, and the second argument.
price_decimal(x, df) ==
    convert_futures_price(IF IsNone(x) \/ x = Some(<<>>) THEN <<"0">> ELSE Val(x),
                          dict_get({<<kv[1], Some(kv[2])>> : kv \in fut_type},
                                   str_of_increment(df), None))

\* Lines 264-269: calculate_spread and calculate_mid_price.
decimal_row(row, ask, bid) ==
    [ask_price |-> row.ask_price, bid_price |-> row.bid_price, increment |-> row.increment,
     ask_price_decimal |-> ask, bid_price_decimal |-> bid,
     spread_decimal |-> RSub(ask, bid), price |-> RAdd(ask, RDiv(bid, RInt(2)))]

decimal_columns(df, asks, bids) ==
    IF \E i \in 1..Len(df) : asks[i].pc = "raised" \/ bids[i].pc = "raised"
    THEN Raised("ValueError")
    ELSE Returned([i \in 1..Len(df) |->
                      decimal_row(df[i], Val(asks[i].result), Val(bids[i].result))])

\* Lines 246-271.
convert_price_to_decimal(df) ==
    decimal_columns(df, Column([i \in 1..Len(df) |-> price_decimal(df[i].ask_price, df)]),
                        Column([i \in 1..Len(df) |-> price_decimal(df[i].bid_price, df)]))

call_convert_price_to_decimal ==
    /\ callFn = "convert_price_to_decimal"
    /\ callPc = "called"
    /\ leave_call(convert_price_to_decimal(callArgs))

\* The quotes and the frames of the calls.
PriceStrings ==
    { Some(<<"1", "3", "4", "'", "1", "6", ".", "5">>),
      Some(<<"1", "3", "4", "'", "1", "6">>),
      Some(<<"1", "1", "0", "'", "0", "8", ".", "2", "5">>),
      Some(<<"1", "1", "0", "'", "0", "8", ".", "0">>),
      Some(<<"1", "3", "4", ".", "5">>),
      None }

FutRows ==
    [ask_price : PriceStrings, bid_price : PriceStrings,
     increment : {"0.00390625", "0.015625", "0.03125"}]

FutFrames == {<<r>> : r \in FutRows} \cup {<<r1, r2>> : r1, r2 \in FutRows}

----------------------------------------------------------------------------
(* The specifications *)

\* The consumer cycle and the refreshes between its cycles.
Init == InitPipe /\ InitThreads /\ ParkedBucket /\ ParkedFetch /\ ParkedYtm /\ ParkedCall

Next ==
    \/ PublishUSTs
    \/ PublishFUTURES
    \/ process_futures_data
    \/ run_fixed_income_calculation
    \/ calculate_quantities_with_sma
    \/ orderRequest

Spec == Init /\ [][Next]_vars

\* calculate_quantities as a function of its table: the pair tables are drawn
\* from hedge rows as run_fixed_income_calculation leaves them, beyond those
\* that the catalogues above produce.
MaxPairs == 3

hedge_row(id, mult, dv01, fut_price, ctd_price, cvx, vol) ==
    [CTD_conId |-> id, CTD_price |-> ctd_price,
     FUT_Multiplier |-> Some(mult), FUT_Volume |-> Some(vol),
     FUT_Price |-> RInt(fut_price), FUT_DV01 |-> RInt(dv01), FUT_AprxCvx |-> RInt(cvx)]

SizerLegs ==
    { hedge_row(21, 1000, 60, 2, 1, 0, 1),
      hedge_row(22, 1000, 60, 2, 1, 0, 2),
      hedge_row(23, 2000, 120, 3, 1, 50, 3),
      hedge_row(24, 1000, 120, 3, 2, 50, 3) }

SizerPairs == {[A |-> a, B |-> b] : a, b \in SizerLegs} \ {[A |-> a, B |-> a] : a \in SizerLegs}

PairTables == UNION {[1..n -> SizerPairs] : n \in 1..MaxPairs}

InitSizer ==
    /\ USTs = <<>>
    /\ FUTURES = FreshFUTURES(<<>>)
    /\ HEDGES = [index |-> <<>>, rows |-> <<>>]
    /\ HEDGES_Combos \in PairTables
    /\ ORDERS = <<>>
    /\ cfFile = [s \in SheetNames |-> GoodSheet]
    /\ pc = "paired"
    /\ err = ""
    /\ SMA = 0
    /\ readFUT = FreshFUTURES(<<>>)
    /\ scaling = NoScaling
    /\ published = 0
    /\ InitThreads /\ ParkedBucket /\ ParkedFetch /\ ParkedYtm /\ ParkedCall

SpecSizer == InitSizer /\ [][calculate_quantities_with_sma]_vars

\* The variables of the other specifications, at rest.
OthersParked ==
    /\ InitPipe /\ cfFile = [s \in SheetNames |-> GoodSheet] /\ InitThreads /\ ParkedBucket
    /\ ParkedFetch /\ ParkedYtm

\* A call of fn with arguments out of inputs.
InitCall(fn, inputs) ==
    /\ OthersParked
    /\ callFn = fn
    /\ callArgs \in inputs
    /\ callPc = "called"
    /\ callResult = <<>>

\* compute_ust_kpis on every bond record.
SpecKpis == InitCall("compute_ust_kpis", KpiItems) /\ [][call_compute_ust_kpis]_vars

\* convert_price_to_decimal on frames of one and two contracts.
SpecPrices ==
    InitCall("convert_price_to_decimal", FutFrames) /\ [][call_convert_price_to_decimal]_vars

\* find_conversion_factor from its filtered bonds on.
SpecSelect ==
    InitCall("find_conversion_factor", SelectInputs) /\ [][call_find_conversion_factor]_vars

\* The closed forms of run_fixed_income_calculation on one hedge row.
SpecForms ==
    InitCall("run_fixed_income_calculation", HedgeRows)
        /\ [][call_run_fixed_income_calculation]_vars

\* One call of orderRequest on a list of three order instructions.
NextOrders ==
    \/ order_body
    \/ order_wait_for_token
    \/ order_post
    \/ order_print

SpecOrders == InitCall("orderRequest", OrderLists) /\ [][NextOrders]_vars

\* The batched requests of one call.
InitF == InitPipe /\ cfFile = [s \in SheetNames |-> GoodSheet] /\ InitThreads /\ ParkedBucket /\ InitFetch /\ ParkedYtm /\ ParkedCall

NextFetch ==
    \/ get_security_definition
    \/ get_market_data

SpecFetch == InitF /\ [][NextFetch]_vars

\* The yield solver under its caller.
InitY ==
    /\ InitPipe /\ cfFile = [s \in SheetNames |-> GoodSheet] /\ InitThreads /\ ParkedBucket
    /\ ParkedFetch /\ InitYtm /\ ParkedCall

NextYtm ==
    \/ calculate_ytm
    \/ newton_iteration
    \/ calculate_bond_metrics

SpecYtm == InitY /\ [][NextYtm]_vars

\* The threads of main.py, the pipeline's computations left out.
InitT ==
    InitPipe /\ cfFile = [s \in SheetNames |-> GoodSheet] /\ InitThreads /\ ParkedBucket /\ ParkedFetch /\ ParkedYtm /\ ParkedCall

NextThreads ==
    \/ population_submit
    \/ population_join
    \/ population_sleep
    \/ \E t \in {"ust", "fut"} : task_wait_for_token(t)
    \/ \E t \in {"ust", "fut"} : task_request(t)
    \/ write_USTs
    \/ write_FUTURES
    \/ consumer_check
    \/ consumer_wait_for_slot
    \/ consumer_read_FUTURES
    \/ consumer_read_USTs
    \/ consumer_compute
    \/ consumer_wait_for_token
    \/ consumer_request
    \/ consumer_sleep
    \/ fetch_futures_chains

SpecThreads == InitT /\ [][NextThreads]_vars

\* The threads of main.py and an interrupt of the main thread.
SpecShutdown == InitT /\ [][NextThreads \/ request_shutdown]_vars

\* The rate limiter under concurrent callers.
InitB ==
    InitPipe /\ cfFile = [s \in SheetNames |-> GoodSheet] /\ InitThreads /\ InitBucket /\ ParkedFetch /\ ParkedYtm /\ ParkedCall

NextBucket ==
    \/ \E t \in Callers : acquire_call(t)
    \/ \E t \in Callers : acquire_grant(t)
    \/ refill
    \/ tick

SpecBucket == InitB /\ [][NextBucket]_vars

----------------------------------------------------------------------------
(* Properties of the consumer cycle (Spec) *)

\* What the running cycle computes for each futures row of its universe.
CycleResults ==
    [i \in 1..Len(FUTURES.rows) |-> find_conversion_factor(FUTURES.rows, USTs, cfFile, i)]

StrictlyInside(y, sym) == sheet_mapping[sym][2] < y /\ y < sheet_mapping[sym][3]

\* C2: a pipeline run leaves config.FUTURES with the rows and columns of the
\* frame it read (no column is added to the shared universe in place).
Columns(F) == {"con_id", "symbol", "price", "multiplier", "volume"} \cup (IF IsNone(F.CF) THEN {} ELSE {"CF"})

C2_RunLeavesUniverseAsRead ==
    pc \in {"hedged", "paired", "sized"} =>
        /\ FUTURES.rows = readFUT.rows
        /\ Columns(FUTURES) = Columns(readFUT)

\* C5: for every futures row with a configured symbol, find_conversion_factor
\* returns no bond or a bond whose year_to_maturity is strictly inside the
\* symbol's bracket, and when no bond of the universe is strictly inside the
\* bracket all four results are None.
C5_MatchInsideBracket ==
    \A i \in 1..Len(FUTURES.rows) :
        LET sym == FUTURES.rows[i].symbol
            r == CycleResults[i]
        IN  sym \in DOMAIN sheet_mapping =>
              /\ ~r.raised
              /\ IsNone(r.ust) \/ StrictlyInside(Val(r.ust).year_to_maturity, sym)
              /\ ~IsNone(r.ust) => Val(r.ust) \in Range(USTs)
              /\ (\A k \in 1..Len(USTs) : ~StrictlyInside(USTs[k].year_to_maturity, sym))
                    => r = NoResult

\* C5's case: a cycle has matched one contract to a bond and found no bond
\* for another, with a bond of the universe sitting on a bracket's edge.
C5_Witness ==
    /\ pc = "hedged"
    /\ \E i, j \in 1..Len(FUTURES.rows) :
          /\ ~IsNone(CycleResults[i].ust)
          /\ CycleResults[j] = NoResult
          /\ \E k \in 1..Len(USTs) :
                USTs[k].year_to_maturity = sheet_mapping[FUTURES.rows[j].symbol][3]

\* C6: after a cycle the hedge table holds exactly the rows of the current
\* universe's contracts that have an eligible bond (row label i-1 for futures
\* row i), and no cycle is refused because of the table an earlier one left.
EligibleLabels == {i - 1 : i \in {k \in 1..Len(FUTURES.rows) : ~IsNone(CycleResults[k].ust)}}

C6_HedgeTableOfCurrentCycle ==
    /\ err # "ValueError: Length of values does not match length of index"
    /\ pc = "hedged" =>
          /\ Range(HEDGES.index) = EligibleLabels
          /\ Len(HEDGES.index) = Cardinality(EligibleLabels)

\* C7: no hedge row is kept with a missing conversion factor.
C7_NoRowWithoutCF ==
    \A i \in 1..Len(HEDGES.rows) : ~IsNone(HEDGES.rows[i].CTD_CF)

\* C8: the two legs of every row of the pair table have different
\* identifiers (CTD_conId).
C8_LegsDiffer ==
    \A k \in 1..Len(HEDGES_Combos) :
        HEDGES_Combos[k].A.CTD_conId # HEDGES_Combos[k].B.CTD_conId

\* C8's case: a pair table built from three candidates, self-pairs left out.
C8_Witness ==
    /\ pc = "paired"
    /\ Len(HEDGES.rows) = 3
    /\ Len(HEDGES_Combos) = 6

\* C9: the pair table of n candidates has n * (n - 1) rows.
C9_AllOrderedPairs ==
    pc = "paired" =>
        Len(HEDGES_Combos) = Len(HEDGES.rows) * (Len(HEDGES.rows) - 1)

\* C10: for a positive capital figure, the aggregate notional of the
\* quantities the scaling step leaves is at most 0.9 x capital, and equals
\* 0.9 x capital exactly when the unscaled aggregate was at least that much
\* (scaling triggered).
C10_ScaledNotionalWithinCap ==
    (scaling.reached /\ SMA > 0) =>
        /\ RLe(scaling.total, cap(SMA))
        /\ scaling.triggered <=> RLe(cap(SMA), scaling.unscaled)
        /\ scaling.triggered <=> scaling.total = cap(SMA)

\* C10's case: a sizing whose unscaled aggregate was above the cap and was
\* scaled down, on a table of at least three pairs.
C10_Witness ==
    /\ pc = "sized"
    /\ scaling.reached /\ scaling.triggered
    /\ RLt(cap(SMA), scaling.unscaled)
    /\ Len(HEDGES_Combos) >= 3

\* The quantities of a call that got as far as the GCD step.
IsIntegral(x) == x[2] = 1

\* C11: the leg ratios recorded after the GCD step are non-negative integers
\* in lowest terms, whatever the scaled ratios were.
C11_RatiosReducedIntegers ==
    \A i \in 1..Len(scaling.QA) :
        /\ IsIntegral(scaling.QA[i]) /\ IsIntegral(scaling.QB[i])
        /\ scaling.QA[i][1] >= 0 /\ scaling.QB[i][1] >= 0
        /\ GCD(scaling.QA[i][1], scaling.QB[i][1]) = 1

\* A step of calculate_quantities on a table with rows: the capital call has
\* given a number and the sizing has run.
AcctFailures ==
    {"get_acct_dets raised",
     "TypeError: unsupported operand type(s) for *: 'NoneType' and 'int'"}

SizingStep == pc = "paired" /\ pc' # "paired" /\ HEDGES_Combos # <<>> /\ err' \notin AcctFailures

\* The row of the 4-case table that a pair's own multipliers select.
own_case(r) ==
    IF r.A.FUT_Multiplier = Some(1000) /\ r.B.FUT_Multiplier = Some(1000) THEN 1
    ELSE IF r.A.FUT_Multiplier = Some(2000) /\ r.B.FUT_Multiplier = Some(1000) THEN 2
    ELSE IF r.A.FUT_Multiplier = Some(1000) /\ r.B.FUT_Multiplier = Some(2000) THEN 3
    ELSE 4

\* C12: the raw ratios of every pair of the table are those of the row of the
\* 4-case table selected by the pair's own multipliers.
C12_RawRatiosOfOwnCase ==
    [][SizingStep =>
          /\ scaling'.rawA = [i \in 1..Len(HEDGES_Combos) |->
                                 raw_Q(HEDGES_Combos[i], own_case(HEDGES_Combos[i])).A]
          /\ scaling'.rawB = [i \in 1..Len(HEDGES_Combos) |->
                                 raw_Q(HEDGES_Combos[i], own_case(HEDGES_Combos[i])).B]]_vars

\* The legs of the table sized have positive DV01s and prices.
PositiveLegs ==
    \A i \in 1..Len(HEDGES_Combos) : \A leg \in {"A", "B"} :
        RSign(HEDGES_Combos[i][leg].FUT_DV01) > 0 /\ RSign(HEDGES_Combos[i][leg].FUT_Price) > 0

BelowTwo(col) == \A i \in 1..Len(col) : RLt(col[i], RInt(2)) /\ RSign(col[i]) >= 0

\* C28: on a table of one multiplier combination with positive DV01s, prices
\* and capital, the raw and the scaled ratios are all below 2, the GCD of the
\* floored first pair is 0 or 1, the quantities are left as scaled, and every
\* order instruction has quantity 0 or 1.
C28_UnitQuantities ==
    (scaling.reached /\ scaling.QA # <<>> /\ SMA > 0 /\ PositiveLegs) =>
        /\ BelowTwo(scaling.rawA) /\ BelowTwo(scaling.rawB)
        /\ BelowTwo(scaling.QA) /\ BelowTwo(scaling.QB)
        /\ scaling.G \in {0, 1}
        /\ \A i \in 1..Len(scaling.QA) :
              /\ scaling.QA[i] = (IF scaling.triggered
                                  THEN RMul(scaling.rawA[i], scaling_factor(SMA, scaling.unscaled))
                                  ELSE scaling.rawA[i])
              /\ scaling.QB[i] = (IF scaling.triggered
                                  THEN RMul(scaling.rawB[i], scaling_factor(SMA, scaling.unscaled))
                                  ELSE scaling.rawB[i])
        /\ \A k \in 1..Len(ORDERS) : ORDERS[k].quantity \in {0, 1}

\* C28's case: a sized table whose first pair has a raw ratio above 1 and
\* whose orders carry the GCD 1.
C28_Witness ==
    /\ pc = "sized" /\ SMA > 0 /\ PositiveLegs
    /\ scaling.G = 1 /\ ~scaling.triggered
    /\ RLt(RInt(1), scaling.rawA[1])
    /\ Len(ORDERS) = 3 /\ ORDERS[1].quantity = 1

\* C13: in every row of the sized table the leg with the higher adjusted net
\* basis has its ratio negated and the other leg's ratio is as the GCD step
\* left it; with equal adjusted net bases both are as the GCD step left them.
C13_HigherBasisLegNegated ==
    pc = "sized" =>
        \A p \in 1..Len(HEDGES_Combos) :
            LET r == HEDGES_Combos[p]
                qa == scaling.QA[r.index + 1]
                qb == scaling.QB[r.index + 1]
                d == RSign(RSub(r.A_AdjNetBasis, r.B_AdjNetBasis))
            IN  /\ d > 0 => r.A_Q_Value = RNeg(qa) /\ r.B_Q_Value = qb
                /\ d < 0 => r.A_Q_Value = qa /\ r.B_Q_Value = RNeg(qb)
                /\ d = 0 => r.A_Q_Value = qa /\ r.B_Q_Value = qb

\* C13's case: a sized table with a row of each kind, the quantities not zero.
C13_Witness ==
    /\ pc = "sized"
    /\ \E p, q, e \in 1..Len(HEDGES_Combos) :
          /\ RSign(RSub(HEDGES_Combos[p].A_AdjNetBasis, HEDGES_Combos[p].B_AdjNetBasis)) > 0
          /\ RSign(HEDGES_Combos[p].A_Q_Value) < 0 /\ RSign(HEDGES_Combos[p].B_Q_Value) > 0
          /\ RSign(RSub(HEDGES_Combos[q].A_AdjNetBasis, HEDGES_Combos[q].B_AdjNetBasis)) < 0
          /\ RSign(HEDGES_Combos[q].B_Q_Value) < 0 /\ RSign(HEDGES_Combos[q].A_Q_Value) > 0
          /\ HEDGES_Combos[e].A_AdjNetBasis = HEDGES_Combos[e].B_AdjNetBasis
          /\ RSign(HEDGES_Combos[e].A_Q_Value) > 0 /\ RSign(HEDGES_Combos[e].B_Q_Value) > 0

\* C14: a cycle whose pair table has k >= 1 rows (all of one multiplier
\* combination) ends its sizing without error, with min(k, 3) order
\* instructions.
C14_OrdersForEveryTable ==
    [][(SizingStep /\ multiplier_case(HEDGES_Combos) # 0) =>
          /\ pc' = "sized"
          /\ Len(ORDERS') = Min(Len(HEDGES_Combos), 3)]_vars

\* C15: the sized table is in descending RENTD order, rows of equal RENTD in
\* their scan order, and the orders are those of its first three rows.
C15_TopThreeStableDescending ==
    LET T == HEDGES_Combos
        K == RENTD_terms(T, [i \in 1..Len(T) |-> T[i].PairsAdjNetBasis])
    IN  (pc = "sized" /\ ~RENTD_isnan(K)) =>
            /\ \A p, q \in 1..Len(T) :
                  p < q => /\ ~RENTD_gt(K, q, p)
                           /\ RENTD_eq(K, p, q) => T[p].index < T[q].index
            /\ ORDERS = <<order_of(T[1]), order_of(T[2]), order_of(T[3])>>

\* C16: no failure of the capital call or of the order submission ends the
\* consumer loop.
CollaboratorFailures == AcctFailures \cup {"requests.post raised"}

C16_CollaboratorFailureNotFatal == ~(pc = "dead" /\ err \in CollaboratorFailures)

\* C18: no pipeline cycle raises the invalid-symbol error.
C18_NoInvalidSymbolMidCycle == err # "ValueError: Invalid futures symbol"

----------------------------------------------------------------------------
(* Properties of the batched requests (SpecFetch) *)

RECURSIVE SuccessfulBodies(_)
SuccessfulBodies(log) ==
    IF log = <<>> THEN <<>>
    ELSE (IF Head(log).response.status_code = 200 THEN Head(log).response.body ELSE <<>>)
            \o SuccessfulBodies(Tail(log))

NumBatches(n) == (n + BatchSize - 1) \div BatchSize

\* C17: the function asks for every batch in order, and the list it returns
\* is the records of the batches answered with success, in batch order.
C17_SuccessfulBatchesConcatenated ==
    /\ \A k \in 1..Len(fetchLog) :
          fetchLog[k].conids = batch_contracts(fetchContracts, (k - 1) * BatchSize)
    /\ fetchPc = "returned" =>
          /\ Len(fetchLog) = NumBatches(Len(fetchContracts))
          /\ fetchOut = SuccessfulBodies(fetchLog)

\* C17's case: a returned call with a failed batch between two batches
\* answered with records.
C17_Witness ==
    /\ fetchPc = "returned"
    /\ Len(fetchLog) = 3
    /\ fetchLog[1].response.status_code = 200 /\ fetchLog[1].response.body # <<>>
    /\ fetchLog[2].response.status_code # 200
    /\ fetchLog[3].response.status_code = 200 /\ fetchLog[3].response.body # <<>>

----------------------------------------------------------------------------
(* Properties of the yield solver (SpecYtm) *)

\* C19: calculate_ytm never raises and leaves by one of its three returns
\* within max_iterations turns of its loop.
C19_YtmReturnsWithinLimit ==
    /\ ytmPc # "raised"
    /\ ytmIter <= max_iterations
    /\ ytmPc = "returned" => ytmExit \in {"converged", "derivative", "limit"}

\* C20: a value that came back from a return without convergence can be told
\* from every value that came back from the converged return.
C20_NonConvergenceMarked ==
    \A r1, r2 \in ytmSeen :
        r1.value = r2.value => (r1.site = "converged" <=> r2.site = "converged")

----------------------------------------------------------------------------
(* Properties of the library functions (SpecKpis and the ones after it) *)

RequiredFields ==
    {"coupon_rate", "coupon_prev_date", "coupon_ncpdt", "principal_value",
     "ask_price", "bid_price", "last_price"}

\* C21: for a bond record that lacks one of the required fields
\* compute_ust_kpis returns None and does not raise.
C21_MissingFieldGivesNone ==
    (callFn = "compute_ust_kpis" /\ callPc # "called"
        /\ \E f \in RequiredFields : callArgs[f] # "v")
    => (callPc = "returned" /\ callResult = None)

\* The value the quote stands for: handle + n/32 + 0.s/(32 * d), d the
\* denominator of the row's increment.
sub_fraction(s) == Rat(int_of(s), TenTo(Len(s)))

quote_value(handle, fraction, d) ==
    IF Count(fraction, ".") = 0 THEN RAdd(RInt(int_of(handle)), Rat(int_of(fraction), 32))
    ELSE RAdd(RInt(int_of(handle)),
              RAdd(Rat(int_of(Before(fraction, ".")), 32),
                   RDiv(sub_fraction(After(fraction, ".")), RInt(32 * d))))

price_value(x, increment) ==
    IF IsNone(x) THEN RInt(0)
    ELSE IF Count(Val(x), "'") = 0 THEN Val(float_of(Val(x)).result)
    ELSE quote_value(Before(Val(x), "'"), After(Val(x), "'"),
                     dict_get(denominators, dict_get(fut_type, <<increment>>, ""), 32))

\* C22: the decimal ask and bid of every contract are the values of its
\* quotes under the contract's own increment convention.
C22_DecimalOfOwnConvention ==
    (callFn = "convert_price_to_decimal" /\ callPc # "called")
    => /\ callPc = "returned"
       /\ \A i \in 1..Len(callArgs) :
             /\ Val(callResult)[i].ask_price_decimal
                    = price_value(callArgs[i].ask_price, callArgs[i].increment)
             /\ Val(callResult)[i].bid_price_decimal
                    = price_value(callArgs[i].bid_price, callArgs[i].increment)

\* The first position of the least stage-one distance.
FirstLeast(filtered, futures_price) ==
    CHOOSE i \in 1..Len(filtered) :
        /\ IsLeast(filtered, futures_price, i)
        /\ \A j \in 1..(i - 1) : ~IsLeast(filtered, futures_price, j)

CellDiff(a, sel, i, j) == Abs(Val(a.sheet.cf[i][j]) - a.filtered[sel].price * a.futures_price)

\* Cell (i, j) is the first cell, row by row, among the non-missing cells
\* nearest to the target.
FirstNearestCell(a, sel, i, j) ==
    /\ ~IsNone(a.sheet.cf[i][j])
    /\ \A k \in 1..Len(a.sheet.coupon), l \in 1..Len(a.sheet.years_months) :
          ~IsNone(a.sheet.cf[k][l]) =>
              \/ CellDiff(a, sel, i, j) < CellDiff(a, sel, k, l)
              \/ /\ CellDiff(a, sel, i, j) = CellDiff(a, sel, k, l)
                 /\ (i < k \/ (i = k /\ j <= l))

\* Stage two alone: the cell recorded is the first nearest one, its coupon
\* rounded to the quarter.
StageTwoFirst ==
    callFn = "find_conversion_factor" /\ callPc = "returned" /\ ~IsNone(callResult.cf) =>
        \E i \in 1..Len(callArgs.sheet.coupon), j \in 1..Len(callArgs.sheet.years_months) :
            /\ FirstNearestCell(callArgs, callResult.selected, i, j)
            /\ callResult.cf = callArgs.sheet.cf[i][j]
            /\ callResult.years_months = Some(callArgs.sheet.years_months[j])
            /\ callResult.coupon = Some(round_to_nearest_quarter(callArgs.sheet.coupon[i]))

\* C24: in both stages of find_conversion_factor a tie goes to the first
\* candidate in scan order, and the coupon recorded is the row's coupon
\* rounded to the nearest quarter.
C24_TiesGoToFirst ==
    /\ StageTwoFirst
    /\ callFn = "find_conversion_factor" /\ callPc = "returned" =>
           callResult.selected = FirstLeast(callArgs.filtered, callArgs.futures_price)

\* C25: a CTD bond with both its previous and its next coupon date has its
\* price, modified duration, Macaulay duration and DV01 from the
\* accrual-adjusted forms.
C25_AccrualFormsWhenAnchored ==
    /\ callFn = "run_fixed_income_calculation" /\ callPc = "returned"
    /\ ~IsNone(callArgs.CTD_prev_cpn) /\ ~IsNone(callArgs.CTD_ncpdt)
    => /\ callResult.CTD_BPrice.form = "accrual"
       /\ callResult.CTD_MDur.form = "accrual"
       /\ callResult.CTD_MacDur.form = "accrual"
       /\ callResult.CTD_DV01.form = "accrual"

\* C29: a call of orderRequest acquires one token and then posts once, the
\* body made of the first instruction; the status changes nothing and there
\* is no second POST.
C29_OnePostOfFirstOrder ==
    callFn = "orderRequest" /\ callPc # "called" =>
        /\ Len(callResult.posts) <= callResult.acquired
        /\ callResult.acquired <= 1
        /\ callPc \in {"print", "returned", "raised"} =>
              /\ callResult.acquired = 1
              /\ callResult.posts = <<json_body(<<callArgs[1], callArgs[1], callArgs[1]>>)>>

C29_Witness ==
    /\ callFn = "orderRequest" /\ callPc = "returned" /\ callResult.status = "500"
    /\ callArgs[2] # callArgs[1] /\ callArgs[3] # callArgs[1]
    /\ Len(callResult.posts) = 1

----------------------------------------------------------------------------
(* Properties of the threads (SpecThreads) *)

\* The pipeline run has been given its two universes.
RunHasUniverses ==
    cons \in {"hedge", "acct_acquire", "acct_request", "size", "order_acquire", "order_request"}

\* C1: the bond universe and the futures universe given to one pipeline run
\* were written by the same refresh cycle.
C1_UniversesOfOneCycle ==
    RunHasUniverses => got.USTs = got.FUTURES.cycle

\* C3: no request has left any thread without a completed wait_for_token of
\* that thread before it.
C3_EveryRequestHasToken == untokened = {}

\* C26: a refresh cycle starts only when both tasks of the cycle before it
\* have finished, and population_function goes on whatever the tasks did.
C26_CyclesDoNotOverlap ==
    /\ [](prod \in {"loop", "join", "sleep"})
    /\ [][cycle' # cycle => finished("ust") /\ finished("fut")]_vars

C26_Witness ==
    cycle = MaxCycles /\ prod = "sleep" /\ task.ust.phase = "raised" /\ task.fut.phase = "raised"

\* C30: a discover whose security-definition or market-data fetch came back
\* empty returns with config.FUTURES as it was: nothing of its cycle is
\* published and the universe of the cycle before stays.
C30_EmptyFetchLeavesFUTURES ==
    /\ [](task.fut.phase = "done" /\ cycle > 0 => pub.FUTURES.cycle < cycle)
    /\ [][task.fut.phase = "request" /\ task'.fut.phase = "done" => pub' = pub]_vars

C30_Witness ==
    /\ task.fut.phase = "done" /\ cycle = MaxCycles
    /\ pub.FUTURES = [cycle |-> MaxCycles - 1, stage |-> 3]

\* C23: once shutdown is requested each loop ends within its iteration: no
\* refresh cycle and no pipeline run begins, and no acquire or sleep under
\* way runs to its end.
C23_ShutdownObserved ==
    [][shutdown =>
         /\ cycle' = cycle
         /\ ~(cons = "check" /\ cons' = "wait_for_slot")
         /\ \A t \in Threads : token[t] \/ ~token'[t]
         /\ ~(prod = "sleep" /\ prod' = "loop")
         /\ ~(cons = "sleep" /\ cons' = "check")]_vars

\* C27: the futures universe given to a pipeline run has its prices filled
\* and its decimal columns.
C27_FuturesReadNormalized ==
    RunHasUniverses => got.FUTURES.stage = 3

----------------------------------------------------------------------------
(* Properties of the rate limiter (SpecBucket) *)

\* The acquisitions granted in the window of length Interval that starts at t.
RECURSIVE GrantedFrom(_, _)
GrantedFrom(t, len) ==
    IF len = 0 \/ t > MaxTime THEN 0 ELSE granted[t] + GrantedFrom(t + 1, len - 1)

GrantedInWindow(t) == GrantedFrom(t, Interval)

\* C4: in any window of length interval the acquisitions granted are at most
\* capacity + floor(interval / interval) x refillAmount.
C4_WindowBound ==
    \A t \in 0..MaxTime : GrantedInWindow(t) <= Capacity + (Interval \div Interval) * RefillAmount

\* C4's case: a window in which the callers took a full bucket and the refill
\* that fell into it.
C4_Witness ==
    \E t \in 0..MaxTime : GrantedInWindow(t) = Capacity + RefillAmount

====
